---- MODULE Spec2Model ----
(***************************************************************************)
(* Model of the generate-execute-retry loop of the natural-language-to-SQL *)
(* agents: DatabaseAgent.query_database of the medical_student_analysis    *)
(* package and the module-level attempt loops of the scripts               *)
(* agentic_sql_gemini_v2.py, agentic_sql_openai.py and script-agentic.py.  *)
(*                                                                         *)
(* Text is a sequence of atoms.  An atom is either one character or a      *)
(* fixed literal of the source (written "[...]"), so that concatenation,   *)
(* str.strip, str.upper, the `in` operator and the regular expression of   *)
(* extract_valid_sql are computed on the text and not assumed.             *)
(***************************************************************************)
EXTENDS Integers, Sequences, FiniteSets, TLC

\* Largest max_retries argument given to DatabaseAgent.query_database.
MaxRetries == 3

\* MAX_RETRIES of the scripts.
ScriptMaxRetries == 2

-----------------------------------------------------------------------------
(* Python values *)

\* Python None, kept apart from every text and every row list.
None == <<"[NoneType]">>

\* str(x), as the f-strings apply it to previous_sql.
Str(x) == IF x = None THEN <<"N", "o", "n", "e">> ELSE x

\* Truth value of a str, list or None, as `if error_message:` and `if data:`.
Truthy(x) == x # None /\ x # <<>>

LowerCase == <<"a", "b", "c", "d", "e", "f", "g", "h", "i", "j", "k", "l", "m",
               "n", "o", "p", "q", "r", "s", "t", "u", "v", "w", "x", "y", "z">>

UpperCase == <<"A", "B", "C", "D", "E", "F", "G", "H", "I", "J", "K", "L", "M",
               "N", "O", "P", "Q", "R", "S", "T", "U", "V", "W", "X", "Y", "Z">>

UpperChar(c) ==
    IF \E i \in 1..26 : LowerCase[i] = c
    THEN UpperCase[CHOOSE i \in 1..26 : LowerCase[i] = c]
    ELSE c

\* str.upper()
Upper(t) == [i \in 1..Len(t) |-> UpperChar(t[i])]

\* Characters matched by \s and removed by str.strip().
IsSpace(c) == c \in {" ", "\n", "\t"}

\* str.strip()
Strip(t) ==
    LET keep == {i \in 1..Len(t) : ~IsSpace(t[i])}
    IN  IF keep = {} THEN <<>>
        ELSE SubSeq(t, CHOOSE i \in keep : \A j \in keep : i <= j,
                       CHOOSE i \in keep : \A j \in keep : j <= i)

\* The `in` operator on str: s occurs in t as a contiguous substring.
Contains(t, s) ==
    \E i \in 0..(Len(t) - Len(s)) : \A j \in 1..Len(s) : t[i + j] = s[j]

-----------------------------------------------------------------------------
(* _extract_valid_sql / extract_valid_sql *)

NoSelectMessage == <<"[No valid SELECT statement found in LLM response.]">>

TopMessage == <<"[Invalid keyword 'TOP' for MySQL. Use LIMIT instead.]">>

EmptyResultMessage == <<"[Query ran successfully but returned no results.]">>

\* The pattern (SELECT\s.+?;) with IGNORECASE | DOTALL can match at i:
\* the keyword, one whitespace, at least one character, then a semicolon.
MatchesAt(t, i) ==
    /\ i + 8 <= Len(t)
    /\ Upper(SubSeq(t, i, i + 5)) = <<"S", "E", "L", "E", "C", "T">>
    /\ IsSpace(t[i + 6])
    /\ \E k \in (i + 8)..Len(t) : t[k] = ";"

\* Mutation of ReSearch: the quantifier is greedy (.+ for .+?).
ReSearch_Greedy(t) ==
    LET starts == {i \in 1..Len(t) : MatchesAt(t, i)}
    IN  IF starts = {} THEN None
        ELSE LET i == CHOOSE a \in starts : \A b \in starts : a <= b
                 ends == {k \in (i + 8)..Len(t) : t[k] = ";"}
                 k == CHOOSE a \in ends : \A b \in ends : b <= a
             IN  SubSeq(t, i, k)

\* re.search(...).group(1): leftmost start, shortest end (lazy .+?).
ReSearch(t) ==
    LET starts == {i \in 1..Len(t) : MatchesAt(t, i)}
    IN  IF starts = {} THEN None
        ELSE LET i == CHOOSE a \in starts : \A b \in starts : a <= b
                 ends == {k \in (i + 8)..Len(t) : t[k] = ";"}
                 k == CHOOSE a \in ends : \A b \in ends : a <= b
             IN  SubSeq(t, i, k)

\* The statement the pattern finds in the text, stripped (None if none).
ExtractedStatement(text) ==
    LET m == ReSearch(text) IN IF m = None THEN None ELSE Strip(m)

\* Mutation of HasTopKeyword: the MySQL validation is missing.
HasTopKeyword_Never(sql) == FALSE

\* `if "TOP" in sql.upper()`
HasTopKeyword(sql) == Contains(Upper(sql), <<"T", "O", "P">>)

\* The outcome of extract_valid_sql: the returned sql, or the ValueError.
ExtractValidSql(text) ==
    LET sql == ExtractedStatement(text)
    IN  IF sql = None
        THEN [ok |-> FALSE, sql |-> None, msg |-> NoSelectMessage]
        ELSE IF HasTopKeyword(sql)
        THEN [ok |-> FALSE, sql |-> sql, msg |-> TopMessage]
        ELSE [ok |-> TRUE, sql |-> sql, msg |-> <<>>]

-----------------------------------------------------------------------------
(* _build_sql_prompt / build_prompt *)

Variants == {"agent", "gemini_v2", "openai", "script_agentic"}

Scripts == {"gemini_v2", "openai", "script_agentic"}

\* The rule lines shared by the system instruction of every variant.
RulePreamble ==
    <<"[You are a SQL expert. Generate a valid MySQL SELECT query.]",
      "[- Use ONLY table and column names exactly as provided in the schema.]",
      "[- NEVER invent or singularize table names.]",
      "[- Output ONLY a valid MySQL SELECT statement, ending with a semicolon.]",
      "[- Do NOT include any explanations, comments, or additional text.]",
      "[- Use backticks for quoting identifiers.]",
      "[- Use LIMIT instead of TOP for row limiting.]">>

\* system_instruction / system_message / system_message_content
SystemInstruction(v) ==
    IF v = "agent"
    THEN RulePreamble \o <<"[IMPORTANT SEMANTIC INSTRUCTIONS]">>
    ELSE RulePreamble

\* The schema and question block.  The scripts end it with "Output:".
QuestionBlock(v, question, schema) ==
    <<"\n", "[Schema:]", "\n">> \o schema
        \o <<"\n", "\n", "[Question: ]", "\"">> \o question \o <<"\"", "\n">>
        \o (IF v = "agent" THEN <<>> ELSE <<"\n", "[Output:]", "\n">>)

\* The block put before the question block when error_message is truthy.
FailureBlock(error_message, previous_sql) ==
    <<"\n", "[You previously generated this SQL which failed:]", "\n", "\n">>
        \o Str(previous_sql)
        \o <<"\n", "\n", "[The error was:]", "\n">>
        \o error_message
        \o <<"\n", "\n",
             "[Try again. ONLY use the tables and columns listed in this schema.]",
             "\n", "\n">>

\* user_message_content / user_message
UserMessage(v, question, schema, error_message, previous_sql) ==
    (IF Truthy(error_message)
     THEN FailureBlock(error_message, previous_sql)
              \o QuestionBlock(v, question, schema) \o <<"\n">>
     ELSE QuestionBlock(v, question, schema))
        \o (IF v = "agent" THEN <<"\n", "[Output:]">> ELSE <<>>)

\* The text of the messages the function returns, in the order sent.
BuildPrompt(v, question, schema, error_message, previous_sql) ==
    LET user == UserMessage(v, question, schema, error_message, previous_sql)
    IN  CASE v \in {"agent", "gemini_v2"} ->
                 SystemInstruction(v) \o <<"\n", "\n">> \o user
          [] v = "openai" -> SystemInstruction(v) \o user
          [] v = "script_agentic" -> user

-----------------------------------------------------------------------------
(* The except clauses of the attempt loops *)

\* Mutation of ExceptClauses: the final `except Exception` is missing.
ExceptClauses_NoCatchAll(v) ==
    << [cls |-> "ValueError", prefix |-> <<>>],
       [cls |-> "pymysql.Error", prefix |-> <<"[MySQL Error: ]">>] >>

\* The except clauses of the loop of each variant, in source order, with
\* the text each puts before str(exception) in error_message.
ExceptClauses(v) ==
    CASE v \in {"agent", "openai"} ->
             << [cls |-> "ValueError", prefix |-> <<>>],
                [cls |-> "pymysql.Error", prefix |-> <<"[MySQL Error: ]">>],
                [cls |-> "Exception", prefix |-> <<>>] >>
      [] v = "gemini_v2" ->
             << [cls |-> "ValueError", prefix |-> <<>>],
                [cls |-> "pymysql.Error", prefix |-> <<"[MySQL Error: ]">>],
                [cls |-> "BlockedPromptException",
                 prefix |-> <<"[Gemini API Error: Prompt was blocked - ]">>],
                [cls |-> "APIError", prefix |-> <<"[Gemini API Error: ]">>],
                [cls |-> "Exception", prefix |-> <<>>] >>
      [] v = "script_agentic" ->
             << [cls |-> "ValueError", prefix |-> <<>>],
                [cls |-> "pymysql.Error", prefix |-> <<"[MySQL Error: ]">>],
                [cls |-> "APIError", prefix |-> <<"[Anthropic API Error: ]">>],
                [cls |-> "Exception", prefix |-> <<>>] >>

\* isinstance(exception, clause class): every class raised derives from Exception.
IsInstance(cls, clauseCls) == cls = clauseCls \/ clauseCls = "Exception"

\* Mutation of HandleException: the clause leaves str(exception) out of
\* error_message.
HandleException_NoDetail(v, exc) ==
    LET cs == ExceptClauses(v)
        hit == {i \in 1..Len(cs) : IsInstance(exc.cls, cs[i].cls)}
    IN  IF hit = {} THEN [caught |-> FALSE, msg |-> None]
        ELSE LET i == CHOOSE a \in hit : \A b \in hit : a <= b
             IN  [caught |-> TRUE, msg |-> cs[i].prefix]

\* The first except clause that catches the exception: whether one does,
\* and the error_message it assigns.
HandleException(v, exc) ==
    LET cs == ExceptClauses(v)
        hit == {i \in 1..Len(cs) : IsInstance(exc.cls, cs[i].cls)}
    IN  IF hit = {} THEN [caught |-> FALSE, msg |-> None]
        ELSE LET i == CHOOSE a \in hit : \A b \in hit : a <= b
             IN  [caught |-> TRUE, msg |-> cs[i].prefix \o exc.msg]

\* Mutation of LoopCondition: the bound is off by one.
LoopCondition_Inclusive(a, m) == a <= m

\* `while attempt < max_retries`
LoopCondition(a, m) == a < m

\* `attempt += 1` of the except clauses
NextAttempt(a) == a + 1

\* Mutation of EmptyResultRaises: the test on data is missing.
EmptyResultRaises_Never(v, rows) == FALSE

\* Mutation of EmptyResultRaises: query_database has the test too.
EmptyResultRaises_EveryVariant(v, rows) == rows = <<>>

\* Mutation of EmptyResultRaises: the test on data is inverted.
EmptyResultRaises_Inverted(v, rows) == v \in Scripts /\ rows # <<>>

\* `if not data: raise ValueError(...)` of the scripts; absent in the agent.
EmptyResultRaises(v, rows) == v \in Scripts /\ rows = <<>>

\* Mutation of SqlAfterFailedExtraction: the statement is assigned before
\* it is validated.
SqlAfterFailedExtraction_Assigned(previous, extracted) == extracted

\* The value sql_query has after `sql_query = extract_valid_sql(...)` raised:
\* the assignment did not happen.
SqlAfterFailedExtraction(previous, extracted) == previous

\* Mutation of ExhaustedReturn: an empty row list is returned.
ExhaustedReturn_EmptyRows(last_error) == <<>>

\* `return None` after the loop of query_database.
ExhaustedReturn(last_error) == None

-----------------------------------------------------------------------------
(* Inputs: what the LLM and the database may do *)

UserQuestion == <<"[user_question]">>

\* response.text of the LLM, with what the text is.
LlmResponses ==
    { [kind |-> "valid",
       text |-> <<"S", "E", "L", "E", "C", "T", " ", "a", " ",
                  "F", "R", "O", "M", " ", "s", ";">>],
      [kind |-> "valid",
       text |-> <<"s", "q", "l", ":", "\n", "s", "e", "l", "e", "c", "t", " ",
                  "b", " ", "f", "r", "o", "m", " ", "s", ";", " ">>],
      [kind |-> "top",
       text |-> <<"S", "E", "L", "E", "C", "T", " ", "T", "O", "P", " ", "5",
                  " ", "a", " ", "F", "R", "O", "M", " ", "s", ";">>],
      [kind |-> "no_select",
       text |-> <<"s", "o", "r", "r", "y">>] }

\* Exceptions of the LLM call (and of reading response.text).
LlmExceptions ==
    { [cls |-> "APIError", msg |-> <<"[429 quota exceeded]">>],
      [cls |-> "BlockedPromptException", msg |-> <<"[SAFETY]">>],
      [cls |-> "ValueError", msg |-> <<"[response has no valid part]">>],
      [cls |-> "Exception", msg |-> <<>>] }

\* Exceptions of cursor.execute / cursor.fetchall.
DbExceptions ==
    { [cls |-> "pymysql.Error",
       msg |-> <<"[(1054, Unknown column 'scor' in 'field list')]">>],
      [cls |-> "Exception", msg |-> <<"[cursor failure]">>] }

\* Results of cursor.fetchall().
RowSets == { <<>>, <<"row1">>, <<"row1", "row2">> }

-----------------------------------------------------------------------------
(* get_schema / get_db_schema *)

\* Largest number of tables the metadata of a run holds.
MaxTables == 2

\* f"- {column_name} ({data_type})\n" for each column, in the order returned.
RECURSIVE RenderColumns(_)
RenderColumns(columns) ==
    IF columns = <<>> THEN <<>>
    ELSE <<"-", " ">> \o Head(columns)[1] \o <<" ", "(">> \o Head(columns)[2]
             \o <<")", "\n">> \o RenderColumns(Tail(columns))

\* The text schema has after the loop over the tables: per table the
\* line f"Table: {table}\n", its column lines, and "\n".
RECURSIVE RenderTables(_, _)
RenderTables(tables, columnsOf) ==
    IF tables = <<>> THEN <<>>
    ELSE <<"T", "a", "b", "l", "e", ":", " ">> \o Head(tables) \o <<"\n">>
             \o RenderColumns(columnsOf[Head(tables)]) \o <<"\n">>
             \o RenderTables(Tail(tables), columnsOf)

\* Mutation of SchemaString: the text is returned without strip().
SchemaString_Unstripped(tables, columnsOf) == RenderTables(tables, columnsOf)

\* `return schema.strip()`
SchemaString(tables, columnsOf) == Strip(RenderTables(tables, columnsOf))

\* Mutation of GetSchemaResult: the agent has no test on the table list.
GetSchemaResult_NoTableTest(v, tables, columnsOf) ==
    SchemaString(tables, columnsOf)

\* What the introspection returns when no metadata query raises: the
\* agent returns None when there are no tables, the scripts do not test.
GetSchemaResult(v, tables, columnsOf) ==
    IF v = "agent" /\ tables = <<>> THEN None
    ELSE SchemaString(tables, columnsOf)

\* `if not schema:` of the orchestrator; the scripts go on to the loop
\* with whatever get_db_schema returned.
CallerStopsOnSchema(v, s) == v = "agent" /\ ~Truthy(s)

\* Columns of the tables of the modelled databases: (name, type) pairs.
ColumnsOf ==
    [t \in {<<"s">>, <<"c", "o">>} |->
        IF t = <<"s">>
        THEN << << <<"a">>, <<"i", "n", "t">> >>,
                << <<"b">>, <<"t", "e", "x", "t">> >> >>
        ELSE << << <<"i", "d">>, <<"i", "n", "t">> >> >>]

\* What SHOW TABLES returns in the modelled databases.
TableLists ==
    {t \in {<<>>, << <<"s">> >>, << <<"s">>, <<"c", "o">> >>} :
        Len(t) <= MaxTables}

-----------------------------------------------------------------------------
(* The caller of the loop and the attempt loop *)

VARIABLES
    variant,        \* which loop runs
    max_retries,    \* max_retries / MAX_RETRIES
    attempt,        \* attempt
    error_message,  \* error_message
    sql_query,      \* sql_query
    data,           \* data of the scripts
    raw_response,   \* raw_response
    prompt,         \* the prompt built last
    pc,             \* position in the code of the loop
    result,         \* what query_database returned
    output,         \* what the caller presented for the question
    propagated,     \* the exception that left the loop, if one did
    genCalls,       \* number of LLM generation calls made
    execCalls,      \* number of cursor.execute calls made
    trace,          \* per finished attempt: what the LLM and the database did
    respKind,       \* what the LLM did in the attempt under way
    sqlFrom,        \* attempt (1-based) whose statement sql_query holds, 0 if none
    errFrom,        \* attempt (1-based) whose error error_message holds, 0 if none
    lastExec,       \* last execution: statement, driver message, rows
    lastRejected,   \* the statement validation rejected last
    mpc,            \* position in the code of the caller (main)
    connOpen,       \* the database connection is open
    tables,         \* what SHOW TABLES returns
    schema,         \* schema
    schemaEvent,    \* what happened to the introspection
    synthEvent,     \* what happened to the summarisation / synthesis call
    pureOp,         \* the function under test, "none" in a run of main
    pureIn,         \* argument of the function under test
    pureOut,        \* its result
    pureDone,       \* the function has been applied
    deterministic,  \* the LLM and the database are functions of their input
    run,            \* which call of query_database is under way
    llmMemo,        \* what the LLM did for each prompt it has seen
    dbMemo,         \* what the database did for each statement it has seen
    promptLog,      \* the prompts of the call under way
    firstRun        \* prompts, statement and result of the first call

loopVars == <<variant, max_retries, attempt, error_message, sql_query, data,
              raw_response, prompt, pc, result, output, propagated, genCalls,
              execCalls, trace, respKind, sqlFrom, errFrom, lastExec,
              lastRejected>>

callerVars == <<mpc, connOpen, tables, schema, schemaEvent, synthEvent>>

pureVars == <<pureOp, pureIn, pureOut, pureDone>>

detVars == <<deterministic, run, llmMemo, dbMemo, promptLog, firstRun>>

\* The variables of the SQL loop, its callers and the functions under test.
coreVars == <<loopVars, callerVars, pureVars, detVars>>

VARIABLES
    cpc,                    \* position in main of the claim orchestrator
    policy_filepath,        \* policy_filepath
    policy_file_data,       \* policy_file_data
    product_filepath,       \* product_filepath
    product_file_data,      \* product_file_data
    extracted_product_id,   \* extracted_product_id
    is_coverage_element_covered, \* is_coverage_element_covered
    disk,                   \* the temporary files that exist on disk
    remote,                 \* the files that exist in the Gemini Files API
    claimRaised,            \* the exception on its way out of main, if any
    apiCalls,               \* the calls main has made, in order
    idReply,                \* the LLM's reply to the product id question
    coverReply,             \* the LLM's reply to the coverage question
    finalAnswer,            \* what main printed as the final answer
    upc,                    \* position in upload_to_gemini
    upState,                \* current_file_status.state.name
    upElapsed,              \* time.time() - start_time, in seconds
    upPolls,                \* number of genai.get_file calls made
    upRemote,               \* genai.upload_file has stored the file
    rtPc,                   \* position in _generate_content_with_retry
    rtCalls,                \* number of model.generate_content calls made
    rtLog,                  \* what each call did, in order
    rtOutcome,              \* what left _generate_content_with_retry
    tmToken,                \* TokenManager._token
    tmExpiry,               \* TokenManager._expiry_time
    tmNow,                  \* time.time(), in seconds
    tmOut,                  \* the last call of get_token: what it returned
    tmCalls                 \* number of get_token calls made

claimVars == <<cpc, policy_filepath, policy_file_data, product_filepath,
               product_file_data, extracted_product_id,
               is_coverage_element_covered, disk, remote, claimRaised,
               apiCalls, idReply, coverReply, finalAnswer>>

uploadVars == <<upc, upState, upElapsed, upPolls, upRemote>>

retryVars == <<rtPc, rtCalls, rtLog, rtOutcome>>

tokenVars == <<tmToken, tmExpiry, tmNow, tmOut, tmCalls>>

\* The variables of the claim-coverage package.
extVars == <<claimVars, uploadVars, retryVars, tokenVars>>

vars == <<coreVars, extVars>>

\* main of the claim orchestrator has not started.
ClaimIdle ==
    /\ cpc = "idle"
    /\ policy_filepath = None
    /\ policy_file_data = None
    /\ product_filepath = None
    /\ product_file_data = None
    /\ extracted_product_id = None
    /\ is_coverage_element_covered = FALSE
    /\ disk = {}
    /\ remote = {}
    /\ claimRaised = None
    /\ apiCalls = <<>>
    /\ idReply = None
    /\ coverReply = None
    /\ finalAnswer = None

\* upload_to_gemini has not been called.
UploadIdle ==
    /\ upc = "idle"
    /\ upState = None
    /\ upElapsed = 0
    /\ upPolls = 0
    /\ upRemote = FALSE

\* _generate_content_with_retry has not been called.
RetryIdle ==
    /\ rtPc = "idle"
    /\ rtCalls = 0
    /\ rtLog = <<>>
    /\ rtOutcome = None

\* The TokenManager singleton as the class body leaves it.
TokenIdle ==
    /\ tmToken = None
    /\ tmExpiry = 0
    /\ tmNow = 0
    /\ tmOut = None
    /\ tmCalls = 0

ExtIdle == ClaimIdle /\ UploadIdle /\ RetryIdle /\ TokenIdle

Terminal == {"returned", "end", "raised"}

\* The locals of the loop before its first iteration.
LoopEntry ==
    /\ attempt = 0
    /\ error_message = None
    /\ sql_query = None
    /\ data = None
    /\ raw_response = None
    /\ prompt = None
    /\ pc = "while"
    /\ result = None
    /\ output = "nothing"
    /\ propagated = None
    /\ genCalls = 0
    /\ execCalls = 0
    /\ trace = <<>>
    /\ respKind = "none"
    /\ sqlFrom = 0
    /\ errFrom = 0
    /\ lastExec = [sql |-> None, msg |-> None, rows |-> None]
    /\ lastRejected = None

\* The first thing main does: the orchestrator reads the API key before
\* it connects, the scripts connect first.
FirstStage(v) == IF v = "agent" THEN "api_key" ELSE "connect"

\* The stage of main that follows the given one.
StageAfter(v, stage) ==
    CASE stage = "api_key" -> (IF v = "agent" THEN "connect" ELSE "get_schema")
      [] stage = "connect" -> (IF v = "agent" THEN "get_schema" ELSE "api_key")
      [] stage = "get_schema" -> "loop"

Init ==
    /\ variant \in Variants
    /\ max_retries \in (IF variant = "agent" THEN 0..MaxRetries
                                             ELSE {ScriptMaxRetries})
    /\ LoopEntry
    /\ mpc = FirstStage(variant)
    /\ connOpen = FALSE
    /\ tables \in TableLists
    /\ schema = None
    /\ schemaEvent = "none"
    /\ synthEvent = "none"
    /\ pureOp = "none"
    /\ pureIn = None
    /\ pureOut = None
    /\ pureDone = FALSE
    /\ deterministic = FALSE
    /\ run = 1
    /\ llmMemo = {}
    /\ dbMemo = {}
    /\ promptLog = <<>>
    /\ firstRun = None
    /\ ExtIdle

\* `if not GEMINI_API_KEY: raise ValueError(...)` (and the like).
CheckApiKey ==
    /\ mpc = "api_key"
    /\ \/ mpc' = StageAfter(variant, "api_key")
       \/ mpc' = "crashed"
    /\ UNCHANGED <<loopVars, connOpen, tables, schema, schemaEvent,
                   synthEvent, pureVars, detVars>>
    /\ UNCHANGED extVars

\* db_agent.connect() / pymysql.connect(...): main goes on with an open
\* connection or leaves without one.
Connect ==
    /\ mpc = "connect"
    /\ \/ connOpen' = TRUE /\ mpc' = StageAfter(variant, "connect")
       \/ connOpen' = FALSE /\ mpc' = "exited"
    /\ UNCHANGED <<loopVars, tables, schema, schemaEvent, synthEvent,
                   pureVars, detVars>>
    /\ UNCHANGED extVars

\* schema = get_schema(): a metadata query raises and the exception leaves
\* main, or the text (or None) comes back; on a falsy schema the
\* orchestrator disconnects and returns.
GetSchema ==
    /\ mpc = "get_schema"
    /\ \/ /\ tables # <<>>
          /\ schemaEvent' = "columns_failed"
          /\ mpc' = "crashed"
          /\ UNCHANGED <<schema, connOpen>>
       \/ /\ schema' = GetSchemaResult(variant, tables, ColumnsOf)
          /\ schemaEvent' = IF tables = <<>> THEN "no_tables" ELSE "ok"
          /\ IF CallerStopsOnSchema(variant, schema')
             THEN connOpen' = FALSE /\ mpc' = "exited"
             ELSE connOpen' = connOpen /\ mpc' = StageAfter(variant, "get_schema")
    /\ UNCHANGED <<loopVars, tables, synthEvent, pureVars, detVars>>
    /\ UNCHANGED extVars

\* An exception raised in the try block reaches the except clauses: the
\* first clause that catches it sets error_message and counts the attempt;
\* if none catches it the exception leaves the loop.
Except(exc, llm, db) ==
    LET h == HandleException(variant, exc)
    IN  /\ trace' = Append(trace, <<llm, db>>)
        /\ IF h.caught
           THEN /\ error_message' = h.msg
                /\ errFrom' = attempt + 1
                /\ attempt' = NextAttempt(attempt)
                /\ pc' = "while"
                /\ propagated' = propagated
           ELSE /\ propagated' = exc.cls
                /\ pc' = "raised"
                /\ UNCHANGED <<error_message, errFrom, attempt>>

\* The LLM may answer prompt p with o: anything, unless it is a function
\* of the prompt and has answered p before.
LlmMay(p, how, o) ==
    deterministic =>
        \A m \in llmMemo : m[2] = p => (m[1] = how /\ m[3] = o)

\* The database may answer statement q with o.
DbMay(q, how, o) ==
    deterministic =>
        \A m \in dbMemo : m[2] = q => (m[1] = how /\ m[3] = o)

\* Loop head to the LLM call: build the prompt from the carried
\* error_message and sql_query, call the LLM, read and strip response.text.
Generate ==
    /\ mpc = "loop"
    /\ pc = "while"
    /\ LoopCondition(attempt, max_retries)
    /\ prompt' = BuildPrompt(variant, UserQuestion, schema,
                             error_message, sql_query)
    /\ genCalls' = genCalls + 1
    /\ promptLog' = IF deterministic THEN Append(promptLog, prompt')
                                     ELSE promptLog
    /\ \/ \E r \in LlmResponses :
             /\ LlmMay(prompt', "text", r)
             /\ llmMemo' = IF deterministic THEN llmMemo \cup {<<"text", prompt', r>>}
                                            ELSE llmMemo
             /\ raw_response' = Strip(r.text)
             /\ respKind' = r.kind
             /\ pc' = "extract"
             /\ UNCHANGED <<attempt, error_message, errFrom, trace, propagated>>
       \/ \E exc \in LlmExceptions :
             /\ LlmMay(prompt', "raise", exc)
             /\ llmMemo' = IF deterministic THEN llmMemo \cup {<<"raise", prompt', exc>>}
                                            ELSE llmMemo
             /\ Except(exc, "exception", "none")
             /\ UNCHANGED <<raw_response, respKind>>
    /\ UNCHANGED <<variant, max_retries, sql_query, data, result, output,
                   execCalls, sqlFrom, lastExec, lastRejected, callerVars,
                   pureVars, deterministic, run, dbMemo, firstRun>>
    /\ UNCHANGED extVars

\* sql_query = extract_valid_sql(raw_response)
Extract ==
    /\ pc = "extract"
    /\ LET e == ExtractValidSql(raw_response)
       IN  IF e.ok
           THEN /\ sql_query' = e.sql
                /\ sqlFrom' = attempt + 1
                /\ pc' = "execute"
                /\ UNCHANGED <<attempt, error_message, errFrom, trace,
                               propagated, lastRejected>>
           ELSE /\ sql_query' = SqlAfterFailedExtraction(sql_query, e.sql)
                /\ sqlFrom' = IF sql_query' = sql_query THEN sqlFrom
                                                        ELSE attempt + 1
                /\ lastRejected' = e.sql
                /\ Except([cls |-> "ValueError", msg |-> e.msg],
                          respKind, "none")
    /\ UNCHANGED <<variant, max_retries, data, raw_response, prompt, result,
                   output, genCalls, execCalls, respKind, lastExec,
                   callerVars, pureVars, detVars>>
    /\ UNCHANGED extVars

\* cursor.execute(sql_query); data = cursor.fetchall(); then a variant
\* that has the `if not data` test raises on no rows; otherwise the agent
\* returns the rows and a script leaves the loop.
Execute ==
    /\ pc = "execute"
    /\ execCalls' = execCalls + 1
    /\ \/ \E exc \in DbExceptions :
             /\ DbMay(sql_query, "raise", exc)
             /\ dbMemo' = IF deterministic THEN dbMemo \cup {<<"raise", sql_query, exc>>}
                                           ELSE dbMemo
             /\ lastExec' = [sql |-> sql_query, msg |-> exc.msg, rows |-> None]
             /\ Except(exc, respKind,
                       IF exc.cls = "pymysql.Error" THEN "db_error"
                                                    ELSE "db_exception")
             /\ UNCHANGED <<data, result>>
       \/ \E rows \in RowSets :
             /\ DbMay(sql_query, "rows", rows)
             /\ dbMemo' = IF deterministic THEN dbMemo \cup {<<"rows", sql_query, rows>>}
                                           ELSE dbMemo
             /\ lastExec' = [sql |-> sql_query, msg |-> None, rows |-> rows]
             /\ IF EmptyResultRaises(variant, rows)
                THEN /\ data' = IF variant = "agent" THEN data ELSE rows
                     /\ UNCHANGED result
                     /\ Except([cls |-> "ValueError",
                                 msg |-> EmptyResultMessage],
                                respKind,
                                IF rows = <<>> THEN "empty" ELSE "rows")
                ELSE /\ trace' = Append(trace,
                            <<respKind, IF rows = <<>> THEN "empty" ELSE "rows">>)
                     /\ UNCHANGED <<attempt, error_message, errFrom,
                                    propagated>>
                     /\ IF variant = "agent"
                        THEN /\ result' = rows
                             /\ pc' = "returned"
                             /\ UNCHANGED data
                        ELSE /\ data' = rows
                             /\ pc' = "step5"
                             /\ UNCHANGED result
    /\ UNCHANGED <<variant, max_retries, sql_query, raw_response, prompt,
                   output, genCalls, respKind, sqlFrom, lastRejected,
                   callerVars, pureVars, deterministic, run, llmMemo,
                   promptLog, firstRun>>
    /\ UNCHANGED extVars

\* The loop condition is false: query_database returns, a script goes on
\* to step 5.
LoopExit ==
    /\ mpc = "loop"
    /\ pc = "while"
    /\ ~LoopCondition(attempt, max_retries)
    /\ IF variant = "agent"
       THEN /\ result' = ExhaustedReturn(error_message)
            /\ pc' = "returned"
       ELSE /\ pc' = "step5"
            /\ UNCHANGED result
    /\ UNCHANGED <<variant, max_retries, attempt, error_message, sql_query,
                   data, raw_response, prompt, output, propagated, genCalls,
                   execCalls, trace, respKind, sqlFrom, errFrom, lastExec,
                   lastRejected, callerVars, pureVars, detVars>>
    /\ UNCHANGED extVars

\* What a script prints when the summary call raised.
SummaryFallback == "raw_data"

\* Step 5 of a script: summarise the rows with one more LLM call, print
\* the raw rows if that call fails, or report the failure.
Step5 ==
    /\ pc = "step5"
    /\ pc' = "end"
    /\ mpc' = "close"
    /\ IF Truthy(data)
       THEN \/ output' = "summary" /\ synthEvent' = "ok"
            \/ output' = SummaryFallback /\ synthEvent' = "llm_failed"
       ELSE output' = "failed" /\ synthEvent' = "none"
    /\ UNCHANGED <<variant, max_retries, attempt, error_message, sql_query,
                   data, raw_response, prompt, result, propagated, genCalls,
                   execCalls, trace, respKind, sqlFrom, errFrom, lastExec,
                   lastRejected, connOpen, tables, schema, schemaEvent,
                   pureVars, detVars>>
    /\ UNCHANGED extVars

\* What synthesize_answer returns when its LLM call raised.
SynthesisFallback == "synthesis_error_text"

\* Step 3 of the orchestrator: synthesize_answer(user_question, db_results,
\* doc_content), called whatever query_database returned.  json.dumps of
\* the rows, outside the try, may raise; the LLM call answers or raises and
\* the except clause returns the fixed error text; main prints the result.
Synthesize ==
    /\ variant = "agent"
    /\ mpc = "loop"
    /\ pc = "returned"
    /\ \/ /\ synthEvent' = "ok"
          /\ output' = "llm_answer"
          /\ mpc' = "close"
       \/ /\ synthEvent' = "llm_failed"
          /\ output' = SynthesisFallback
          /\ mpc' = "close"
       \/ /\ Truthy(result)
          /\ synthEvent' = "dumps_failed"
          /\ output' = output
          /\ mpc' = "crashed"
    /\ UNCHANGED <<variant, max_retries, attempt, error_message, sql_query,
                   data, raw_response, prompt, pc, result, propagated,
                   genCalls, execCalls, trace, respKind, sqlFrom, errFrom,
                   lastExec, lastRejected, connOpen, tables, schema,
                   schemaEvent, pureVars, detVars>>
    /\ UNCHANGED extVars

\* db_agent.disconnect() / conn.close() at the end of main.
Close ==
    /\ mpc = "close"
    /\ connOpen' = FALSE
    /\ mpc' = "exited"
    /\ UNCHANGED <<loopVars, tables, schema, schemaEvent, synthEvent,
                   pureVars, detVars>>
    /\ UNCHANGED extVars

Next ==
    \/ CheckApiKey
    \/ Connect
    \/ GetSchema
    \/ Generate
    \/ Extract
    \/ Execute
    \/ LoopExit
    \/ Step5
    \/ Synthesize
    \/ Close

Spec == Init /\ [][Next]_vars

-----------------------------------------------------------------------------
(* Properties of the attempt loop *)

\* What is left to run: a natural number that every step makes smaller.
Measure ==
    100 * (CASE mpc = FirstStage(variant) -> 5
             [] mpc = StageAfter(variant, FirstStage(variant)) -> 4
             [] mpc = "get_schema" -> 3
             [] mpc = "loop" -> 2
             [] mpc = "close" -> 1
             [] OTHER -> 0)
      + 5 * (max_retries - attempt)
      + (CASE pc = "while" -> 5
           [] pc = "extract" -> 4
           [] pc = "execute" -> 3
           [] pc = "step5" -> 1
           [] OTHER -> 0)

\* The attempt that entry e of trace records ended in an exception.
FailedEntry(e) ==
    \/ e[1] = "exception"
    \/ e[2] \in {"none", "db_error", "db_exception"}

\* C1: whatever the LLM and the database do, one run of the loop makes at
\* most max_retries generation calls, and it stops: every step of the run
\* lowers a measure that is never negative.
C1_BoundedGeneration ==
    /\ [](genCalls <= max_retries /\ attempt <= max_retries /\ Measure >= 0)
    /\ [][Measure' < Measure]_vars

\* The budget was used up by failures of several sorts.
C1_Witness ==
    /\ pc \in Terminal
    /\ max_retries >= 2
    /\ genCalls = max_retries
    /\ \E i, j \in 1..Len(trace) :
          trace[i][1] = "exception" /\ trace[j][2] = "db_error"

\* C2: when the first response is a valid SELECT that executes and returns
\* at least one row, the loop ends in success after exactly one generation
\* call and one execution, attempt is still 0, and those rows are returned.
C2_FirstAttemptSuccess ==
    (Len(trace) >= 1 /\ trace[1] = <<"valid", "rows">>) =>
        /\ Len(trace) = 1
        /\ genCalls = 1
        /\ execCalls = 1
        /\ attempt = 0
        /\ error_message = None
        /\ Truthy(lastExec.rows)
        /\ IF variant = "agent"
           THEN pc = "returned" /\ result = lastExec.rows
           ELSE pc \in {"step5", "end"} /\ data = lastExec.rows
                    /\ output # "failed"

\* The agent returned two rows from its first attempt; a script did too.
C2_Witness ==
    /\ trace = << <<"valid", "rows">> >>
    /\ \/ pc = "returned" /\ result = <<"row1", "row2">>
       \/ pc = "end" /\ data = <<"row1", "row2">>

\* C3: an exception raised inside an attempt (LLM call, extraction or
\* validation, execution) is caught in the loop, costs exactly one attempt
\* and never reaches the caller, who sees rows or the failure value only.
C3_ExceptionsContained ==
    /\ [](pc # "raised" /\ propagated = None)
    /\ [](pc = "returned" => result = None \/ result \in RowSets)
    /\ [][(Len(trace') > Len(trace) /\ FailedEntry(trace'[Len(trace')]))
             => attempt' = attempt + 1 /\ pc' = "while"]_vars

\* Exceptions of the LLM call, of validation and of execution were all
\* caught in one run.
C3_Witness ==
    /\ pc \in Terminal
    /\ \E i, j, k \in 1..Len(trace) :
          /\ trace[i][1] = "exception"
          /\ trace[j][2] = "db_exception"
          /\ trace[k] = <<"top", "none">>

\* C4: when the execution of attempt k's validated statement raises a
\* driver error and another attempt follows, the prompt of attempt k+1
\* holds that statement verbatim and the driver's message text.
C4_DriverErrorInRetryPrompt ==
    (/\ pc \in {"extract", "execute"}
     /\ genCalls >= 2
     /\ Len(trace) = genCalls - 1
     /\ trace[Len(trace)][2] = "db_error")
        => /\ lastExec.sql # None
           /\ Contains(prompt, lastExec.sql)
           /\ Contains(prompt, lastExec.msg)

\* The agent built the prompt of attempt 2 after a driver error in attempt 1.
C4_Witness ==
    /\ variant = "agent"
    /\ pc = "extract"
    /\ genCalls = 2
    /\ trace = << <<"valid", "db_error">> >>
    /\ lastExec.msg \in {e.msg : e \in DbExceptions}

\* C5: when attempt 1's SELECT is rejected for TOP and attempt 2's is
\* valid and returns rows, the loop retries once, succeeds on attempt 2, and
\* the prompt of attempt 2 holds the rejected statement of attempt 1 and
\* the validation error text.
C5_TopThenValid ==
    (/\ Len(trace) = 2
     /\ trace[1] = <<"top", "none">>
     /\ trace[2] = <<"valid", "rows">>)
        => /\ attempt = 1
           /\ genCalls = 2
           /\ execCalls = 1
           /\ Contains(prompt, TopMessage)
           /\ Contains(prompt, lastRejected)

\* C6: when extraction or validation of a response fails, error_message
\* becomes that failure's message and sql_query keeps the value it had
\* before the attempt (None if no attempt before produced a statement).
C6_FailedExtractionKeepsSql ==
    /\ [](sqlFrom = 0 => sql_query = None)
    /\ [][(pc = "extract" /\ pc' # "execute")
             => /\ sql_query' = sql_query
                /\ sqlFrom' = sqlFrom
                /\ error_message' = IF respKind = "no_select"
                                    THEN NoSelectMessage ELSE TopMessage]_vars

\* A TOP statement was rejected in attempt 2 while sql_query held the
\* statement of attempt 1.
C6_Witness ==
    /\ pc = "while"
    /\ sqlFrom = 1
    /\ errFrom = 2
    /\ sql_query # None
    /\ error_message = TopMessage
    /\ lastRejected # None

\* C7: in every retry prompt the quoted statement and the quoted error
\* come from the one attempt just before it (a statement quoted as None
\* is let through).
C7_PromptPairsOneAttempt ==
    (pc = "extract" /\ genCalls >= 2 /\ Truthy(error_message))
        => /\ errFrom = genCalls - 1
           /\ sqlFrom \in {0, genCalls - 1}

\* C8: if every response is a SELECT with TOP, the loop makes exactly
\* max_retries generation calls and no execution, and fails with
\* error_message being the TOP validation error.
C8_AllTop ==
    (/\ pc \in {"returned", "end"}
     /\ trace # <<>>
     /\ \A i \in 1..Len(trace) : trace[i][1] = "top")
        => /\ genCalls = max_retries
           /\ execCalls = 0
           /\ error_message = TopMessage
           /\ IF variant = "agent" THEN result = None
              ELSE output = "failed" /\ ~Truthy(data)

\* Runs of the agent and of a script in which every response used TOP.
C8_Witness ==
    /\ pc \in {"returned", "end"}
    /\ max_retries >= 2
    /\ Len(trace) = max_retries
    /\ \A i \in 1..Len(trace) : trace[i] = <<"top", "none">>

C10_EmptyResultRetried ==
    /\ [][(variant \in Scripts /\ pc = "execute" /\ lastExec'.rows = <<>>)
             => /\ attempt' = attempt + 1
                /\ pc' = "while"
                /\ sql_query' = lastExec'.sql
                /\ sqlFrom' = attempt + 1
                /\ error_message' = EmptyResultMessage]_vars
    /\ []((/\ variant \in Scripts
           /\ pc = "end"
           /\ \E i \in 1..Len(trace) : trace[i][2] = "empty"
           /\ \A i \in 1..Len(trace) : trace[i][2] # "rows")
             => output = "failed")

\* A script in which both executions returned no rows reported failure.
C10_Witness ==
    /\ variant \in Scripts
    /\ pc = "end"
    /\ trace = << <<"valid", "empty">>, <<"valid", "empty">> >>
    /\ output = "failed"

-----------------------------------------------------------------------------
(* Properties of the caller and of the prompts *)

\* The loop ended without rows: None from query_database, falsy data in
\* a script.
LoopFailed ==
    \/ variant = "agent" /\ pc = "returned" /\ result = None
    \/ variant \in Scripts /\ pc = "end" /\ ~Truthy(data)

\* The loop ended with at least one row.
LoopGaveRows ==
    \/ variant = "agent" /\ pc = "returned" /\ Truthy(result)
    \/ variant \in Scripts /\ pc = "end" /\ Truthy(data)

\* C11: when introspection finds no tables or a column listing fails, the
\* caller never reaches the loop: no generation call is made without a
\* non-empty schema text, in the orchestrator and in the scripts.
C11_NoGenerationWithoutSchema ==
    genCalls >= 1 => schemaEvent = "ok" /\ Truthy(schema)

\* C15: every prompt sent for SQL generation, in every variant, holds the
\* fixed rule preamble.
C15_PreambleInEveryPrompt ==
    genCalls >= 1 => Contains(prompt, RulePreamble)

\* C16: the first prompt has no previous-failure block, and the prompt of
\* every attempt after a failed one has it, before the schema and question
\* block, whatever the message of the exception.
C16_FailureBlockAfterFailure ==
    /\ genCalls = 1 =>
          ~Contains(prompt,
                    <<"[You previously generated this SQL which failed:]">>)
    /\ genCalls >= 2 =>
          \E i, j \in 1..Len(prompt) :
             /\ i < j
             /\ prompt[i] = "[You previously generated this SQL which failed:]"
             /\ prompt[j] = "[Schema:]"

\* C17: once the connection is open it is closed on every way out of
\* main, a raised exception included.
C17_ConnectionClosedOnExit ==
    mpc \in {"exited", "crashed"} => ~connOpen

\* C18: when the loop gave rows and the summarisation call failed, the
\* failure is swallowed and the caller presents the raw rows, in the
\* scripts and in the orchestrator.
C18_SummaryFailureShowsRows ==
    (LoopGaveRows /\ synthEvent = "llm_failed")
        => mpc # "crashed" /\ output = "raw_data"

\* C19: when the loop failed, no summary or answer produced by the LLM is
\* presented for the question.
C19_FailureNotMasked ==
    (LoopFailed /\ genCalls >= 1 /\ mpc \in {"close", "exited", "crashed"})
        => output \notin {"llm_answer", "summary"}

-----------------------------------------------------------------------------
(* extract_valid_sql and the schema rendering as functions of their input *)

\* Largest number of pieces a response text under test is made of.
MaxChunks == 5

\* The pieces the response texts under test are made of.
Chunks ==
    { <<"S", "E", "L", "E", "C", "T">>, <<"S", "e", "l", "e", "c", "t">>,
      <<" ">>, <<"\n">>, <<";">>, <<"a">>, <<"t", "o", "P">> }

\* The texts made of at most n pieces.
RECURSIVE ChunkTexts(_)
ChunkTexts(n) ==
    IF n = 0 THEN {<<>>}
    ELSE LET shorter == ChunkTexts(n - 1)
         IN  shorter \cup {c \o t : c \in Chunks, t \in shorter}

\* Column lists SHOW COLUMNS may return for a table.
ColumnLists ==
    { << << <<"a">>, <<"i", "n", "t">> >> >>,
      << << <<"a">>, <<"i", "n", "t">> >>,
         << <<"b">>, <<"t", "e", "x", "t">> >> >>,
      << << <<"b">>, <<"t", "e", "x", "t">> >>,
         << <<"a">>, <<"i", "n", "t">> >> >> }

TableNames == { <<"s">>, <<"c", "o">>, <<"E", "n", "r">> }

\* The table lists of at most n tables.
RECURSIVE TableSeqs(_)
TableSeqs(n) ==
    IF n = 0 THEN {<<>>}
    ELSE LET shorter == TableSeqs(n - 1)
         IN  shorter \cup {<<t>> \o ts : t \in TableNames, ts \in shorter}

\* The SQL loop and its caller are not running.
SqlIdle ==
    /\ variant = "agent"
    /\ max_retries = 0
    /\ LoopEntry
    /\ mpc = "exited"
    /\ connOpen = FALSE
    /\ tables = <<>>
    /\ schema = None
    /\ schemaEvent = "none"
    /\ synthEvent = "none"
    /\ deterministic = FALSE
    /\ run = 1
    /\ llmMemo = {}
    /\ dbMemo = {}
    /\ promptLog = <<>>
    /\ firstRun = None
    /\ pureOut = None
    /\ pureDone = FALSE

\* The variables of main while a function is under test.
PureIdle == SqlIdle /\ ExtIdle

InitExtract ==
    /\ PureIdle
    /\ pureOp = "extract"
    /\ pureIn \in ChunkTexts(MaxChunks)

\* extract_valid_sql(text)
ApplyExtract ==
    /\ pureOp = "extract"
    /\ ~pureDone
    /\ pureOut' = ExtractValidSql(pureIn)
    /\ pureDone' = TRUE
    /\ UNCHANGED <<loopVars, callerVars, detVars, pureOp, pureIn>>
    /\ UNCHANGED extVars

NextExtract == ApplyExtract

SpecExtract == InitExtract /\ [][NextExtract]_vars

InitSchema ==
    /\ PureIdle
    /\ pureOp = "schema"
    /\ pureIn \in [tables : TableSeqs(MaxTables),
                   columnsOf : [TableNames -> ColumnLists]]

\* The rendering of get_schema / get_db_schema for the metadata returned.
ApplySchema ==
    /\ pureOp = "schema"
    /\ ~pureDone
    /\ pureOut' = SchemaString(pureIn.tables, pureIn.columnsOf)
    /\ pureDone' = TRUE
    /\ UNCHANGED <<loopVars, callerVars, detVars, pureOp, pureIn>>
    /\ UNCHANGED extVars

NextSchema == ApplySchema

SpecSchema == InitSchema /\ [][NextSchema]_vars

\* The texts of ts with sep between each two.
RECURSIVE JoinWith(_, _)
JoinWith(ts, sep) ==
    IF ts = <<>> THEN <<>>
    ELSE IF Len(ts) = 1 THEN ts[1]
    ELSE ts[1] \o sep \o JoinWith(Tail(ts), sep)

\* The lines of the block of table t: the header, then one per column.
BlockLines(t, columns) ==
    << <<"T", "a", "b", "l", "e", ":", " ">> \o t >>
        \o [i \in 1..Len(columns) |->
               <<"-", " ">> \o columns[i][1] \o <<" ", "(">> \o columns[i][2]
                   \o <<")">>]

\* C12: the schema text is, for each table in the order returned, the line
\* `Table: <name>` and one line `- <name> (<type>)` per column in the order
\* returned, with exactly one blank line between two blocks and nothing
\* after the last line.
C12_SchemaTextFormat ==
    pureDone =>
        /\ pureOut =
              JoinWith([i \in 1..Len(pureIn.tables) |->
                           JoinWith(BlockLines(pureIn.tables[i],
                                        pureIn.columnsOf[pureIn.tables[i]]),
                                    <<"\n">>)],
                       <<"\n", "\n">>)
        /\ (pureOut # <<>> => ~IsSpace(pureOut[Len(pureOut)]))

\* Two tables with two columns each were rendered.
C12_Witness ==
    /\ pureOp = "schema"
    /\ pureDone
    /\ Len(pureIn.tables) = 2
    /\ pureIn.tables[1] # pureIn.tables[2]
    /\ \A i \in 1..2 : Len(pureIn.columnsOf[pureIn.tables[i]]) = 2

\* The keyword SELECT, in any case, is at position i of t.
KeywordAt(t, i) ==
    /\ i + 5 <= Len(t)
    /\ \A j \in 1..6 :
          t[i + j - 1] \in {<<"S", "E", "L", "E", "C", "T">>[j],
                            <<"s", "e", "l", "e", "c", "t">>[j]}

\* The statement found in the text (None if none), whether or not the
\* validation then rejects it.
FoundStatement == pureOut.sql

\* C13 as claimed: the statement found starts at a SELECT keyword and
\* ends at, and includes, the next semicolon after that keyword; the
\* no-statement error is raised exactly when the text has no keyword
\* followed by whitespace, text and a semicolon.
C13_EndsAtNextSemicolon ==
    pureDone =>
        /\ (pureOut.msg = NoSelectMessage) <=>
              ~\E i \in 1..Len(pureIn) :
                  /\ KeywordAt(pureIn, i)
                  /\ \E k \in (i + 8)..Len(pureIn) :
                        IsSpace(pureIn[i + 6]) /\ pureIn[k] = ";"
        /\ FoundStatement # None =>
              /\ KeywordAt(FoundStatement, 1)
              /\ Contains(pureIn, FoundStatement)
              /\ \A k \in 7..Len(FoundStatement) :
                    FoundStatement[k] = ";" <=> k = Len(FoundStatement)

\* C13 as amended: the statement found starts at the first SELECT keyword
\* that is followed by a whitespace character, one more character of any
\* kind and, after that, a semicolon; it ends at, and includes, the first
\* semicolon after that one character; the no-statement error is raised
\* exactly when the text has no such keyword.
C13_FirstLazyMatch ==
    pureDone =>
        LET starts == {i \in 1..Len(pureIn) :
                          /\ KeywordAt(pureIn, i)
                          /\ \E k \in (i + 8)..Len(pureIn) :
                                IsSpace(pureIn[i + 6]) /\ pureIn[k] = ";"}
        IN  /\ (pureOut.msg = NoSelectMessage) <=> starts = {}
            /\ (FoundStatement = None) <=> starts = {}
            /\ FoundStatement # None =>
                  \E i \in starts :
                     /\ \A j \in starts : i <= j
                     /\ Len(FoundStatement) >= 9
                     /\ FoundStatement =
                           SubSeq(pureIn, i, i + Len(FoundStatement) - 1)
                     /\ \A k \in 9..Len(FoundStatement) :
                           FoundStatement[k] = ";" <=> k = Len(FoundStatement)

\* A statement was found in which a semicolon comes right after the
\* whitespace: it runs on to the semicolon after that.
C13_Witness ==
    /\ pureOp = "extract"
    /\ pureDone
    /\ pureIn = <<"a", "S", "e", "l", "e", "c", "t", "\n", ";", ";">>
    /\ FoundStatement = <<"S", "e", "l", "e", "c", "t", "\n", ";", ";">>

\* A character that can be part of an identifier or a word.
IsWordChar(c) ==
    \/ \E i \in 1..26 : c = LowerCase[i] \/ c = UpperCase[i]
    \/ c \in {"0", "1", "2", "3", "4", "5", "6", "7", "8", "9", "_"}

\* TOP, in any case, stands in sql as a token of its own.
HasTopToken(sql) ==
    \E i \in 1..(Len(sql) - 2) :
       /\ Upper(SubSeq(sql, i, i + 2)) = <<"T", "O", "P">>
       /\ (i = 1 \/ ~IsWordChar(sql[i - 1]))
       /\ (i + 3 > Len(sql) \/ ~IsWordChar(sql[i + 3]))

\* C14: validation rejects a statement exactly when it holds TOP as a
\* token; a statement in which the letters occur only inside a longer
\* identifier is accepted.
C14_RejectsTopTokenOnly ==
    (pureDone /\ FoundStatement # None) =>
        ((~pureOut.ok /\ pureOut.msg = TopMessage)
            <=> HasTopToken(FoundStatement))

-----------------------------------------------------------------------------
(* Two calls of query_database against the same LLM and database *)

\* Mutation of EntryErrorMessage: the error of the call before is kept.
EntryErrorMessage_Kept(previous) == previous

\* `error_message = None` at the head of query_database.
EntryErrorMessage(previous) == None

\* `sql_query = None` at the head of query_database.
EntrySqlQuery(previous) == None

InitTwoRuns ==
    /\ variant = "agent"
    /\ max_retries \in 0..MaxRetries
    /\ LoopEntry
    /\ mpc = "loop"
    /\ connOpen = TRUE
    /\ tables = << <<"s">> >>
    /\ schema = GetSchemaResult("agent", tables, ColumnsOf)
    /\ schemaEvent = "ok"
    /\ synthEvent = "none"
    /\ pureOp = "none"
    /\ pureIn = None
    /\ pureOut = None
    /\ pureDone = FALSE
    /\ deterministic = TRUE
    /\ run = 1
    /\ llmMemo = {}
    /\ dbMemo = {}
    /\ promptLog = <<>>
    /\ firstRun = None
    /\ ExtIdle

\* query_database has returned and is called again with the same question,
\* schema and max_retries: its locals are set anew.
SecondCall ==
    /\ deterministic
    /\ run = 1
    /\ pc = "returned"
    /\ firstRun' = <<promptLog, sql_query, result>>
    /\ run' = 2
    /\ attempt' = 0
    /\ error_message' = EntryErrorMessage(error_message)
    /\ sql_query' = EntrySqlQuery(sql_query)
    /\ pc' = "while"
    /\ result' = None
    /\ promptLog' = <<>>
    /\ genCalls' = 0
    /\ execCalls' = 0
    /\ trace' = <<>>
    /\ sqlFrom' = 0
    /\ errFrom' = 0
    /\ UNCHANGED <<variant, max_retries, data, raw_response, prompt, output,
                   propagated, respKind, lastExec, lastRejected, callerVars,
                   pureVars, deterministic, llmMemo, dbMemo>>
    /\ UNCHANGED extVars

NextTwoRuns == Generate \/ Extract \/ Execute \/ LoopExit \/ SecondCall

SpecTwoRuns == InitTwoRuns /\ [][NextTwoRuns]_vars

\* C20: a second run with the same question, schema and max_retries,
\* against an LLM that is a function of the prompt and a database that is
\* a function of the statement, sends the same prompts in the same order
\* and ends with the same statement and the same result.
C20_SecondRunRepeatsFirst ==
    (run = 2 /\ pc = "returned")
        => <<promptLog, sql_query, result>> = firstRun

\* The second run ended, after a failed attempt and a retry, with rows.
C20_Witness ==
    /\ run = 2
    /\ pc = "returned"
    /\ Len(promptLog) >= 2
    /\ Truthy(error_message)
    /\ Truthy(result)

-----------------------------------------------------------------------------
(* The claim-coverage orchestrator: medical_claim_analysis *)

\* str.lower() of one character.
LowerChar(c) ==
    IF \E i \in 1..26 : UpperCase[i] = c
    THEN LowerCase[CHOOSE i \in 1..26 : UpperCase[i] = c]
    ELSE c

\* str.lower()
Lower(t) == [i \in 1..Len(t) |-> LowerChar(t[i])]

\* "NOT_FOUND"
NotFound == <<"N", "O", "T", "_", "F", "O", "U", "N", "D">>

\* "true"
TrueText == <<"t", "r", "u", "e">>

\* product_id = response.text.strip(); None when it is "NOT_FOUND".
ProductIdFromReply(text) ==
    LET product_id == Strip(text)
    IN  IF product_id = NotFound THEN None ELSE product_id

\* Mutation of CoverageVerdict: a reply that starts with "true" counts.
CoverageVerdict_Prefix(text) ==
    LET r == Lower(Strip(text))
    IN  Len(r) >= 4 /\ SubSeq(r, 1, 4) = TrueText

\* result = response.text.strip().lower(); return result == "true"
CoverageVerdict(text) == Lower(Strip(text)) = TrueText

\* The names of the files the Files API can report for an upload.
FileStates == {"PROCESSING", "ACTIVE", "READY", "FAILED", "STATE_UNSPECIFIED"}

\* Mutation of UploadReturns: only a failed state raises.
UploadReturns_UnlessFailed(state) == state # "FAILED"

\* `if current_file_status.state.name in ["READY", "ACTIVE"]: return ...`
UploadReturns(state) == state \in {"READY", "ACTIVE"}

\* What fetch_policy_data / fetch_product_schema_data return: the parsed
\* body, an empty body, or None after any failure.
FetchResults == { <<"[response json]">>, <<>>, None }

\* Texts the LLM may reply with to the product id question.
IdReplies ==
    { NotFound,
      <<" ">> \o NotFound \o <<"\n">>,
      <<"n", "o", "t", "_", "f", "o", "u", "n", "d">>,
      <<"P", "1">>,
      <<" ", "P", "1", "\n">>,
      <<" ", "\n">> }

\* Texts the LLM may reply with to the coverage question.
CoverReplies ==
    { <<"T", "r", "u", "e">>,
      <<" ", "t", "r", "u", "e", "\n">>,
      <<"T", "R", "U", "E">>,
      <<"F", "a", "l", "s", "e">>,
      <<"t", "r", "u", "e", ".">>,
      <<"Y", "e", "s">> }

\* file.uri of an uploaded file.
FileUris == { <<"[file uri]">>, <<>> }

PolicyPath == <<"[temp_policy_response.json]">>

ProductPath == <<"[temp_product_response.json]">>

PolicyFileName == <<"[files/policy]">>

ProductFileName == <<"[files/product]">>

\* The methods class SynthesisAgent defines.
SynthesisAgentMethods ==
    { "__init__", "synthesize_answer", "_build_prompt", "_format_data",
      "_format_response", "_build_error_response" }

\* The method main calls for step 3.
SynthesisCall == "synthesize_answer_with_files"

\* The file object upload_to_gemini returns, with its name and uri.
FileHandle(name, uri) == <<name, uri>>

FileName(handle) == handle[1]

FileUri(handle) == handle[2]

\* Control is at the entry of the try block.
InitClaim ==
    /\ SqlIdle
    /\ pureOp = "none"
    /\ pureIn = None
    /\ UploadIdle /\ RetryIdle /\ TokenIdle
    /\ cpc = "fetch_policy"
    /\ policy_filepath = None
    /\ policy_file_data = None
    /\ product_filepath = None
    /\ product_file_data = None
    /\ extracted_product_id = None
    /\ is_coverage_element_covered = FALSE
    /\ disk = {}
    /\ remote = {}
    /\ claimRaised = None
    /\ apiCalls = <<>>
    /\ idReply = None
    /\ coverReply = None
    /\ finalAnswer = None

\* An exception leaves the try block: control goes to the finally clause.
ClaimRaise(exc) ==
    /\ claimRaised' = exc
    /\ cpc' = "finally"

\* policy_response_json = policy_agent.fetch_policy_data(...)
FetchPolicy ==
    /\ cpc = "fetch_policy"
    /\ \E r \in FetchResults :
          /\ apiCalls' = Append(apiCalls,
                 <<"fetch_policy", IF Truthy(r) THEN "ok" ELSE "failed">>)
          /\ cpc' = IF Truthy(r) THEN "save_policy" ELSE "step2"
    /\ UNCHANGED <<policy_filepath, policy_file_data, product_filepath,
                   product_file_data, extracted_product_id,
                   is_coverage_element_covered, disk, remote, claimRaised,
                   idReply, coverReply, finalAnswer>>
    /\ UNCHANGED <<coreVars, uploadVars, retryVars, tokenVars>>

\* policy_filepath = ...; with open(policy_filepath, 'w') as f: json.dump
SavePolicy ==
    /\ cpc = "save_policy"
    /\ policy_filepath' = PolicyPath
    /\ \/ /\ disk' = disk \cup {PolicyPath}
          /\ cpc' = "upload_policy"
          /\ UNCHANGED claimRaised
       \/ /\ disk' = disk
          /\ ClaimRaise(<<"OSError">>)
       \/ /\ disk' = disk \cup {PolicyPath}
          /\ ClaimRaise(<<"OSError">>)
    /\ UNCHANGED <<policy_file_data, product_filepath, product_file_data,
                   extracted_product_id, is_coverage_element_covered, remote,
                   apiCalls, idReply, coverReply, finalAnswer>>
    /\ UNCHANGED <<coreVars, uploadVars, retryVars, tokenVars>>

\* policy_file_data = upload_to_gemini(policy_filepath, ...): upload_file
\* raises, or the file is stored and get_file raises, or the last state
\* observed decides between the handle and an exception.
UploadPolicy ==
    /\ cpc = "upload_policy"
    /\ \/ /\ apiCalls' = Append(apiCalls, <<"upload_policy", "upload_raised">>)
          /\ ClaimRaise(<<"Exception">>)
          /\ UNCHANGED <<remote, policy_file_data>>
       \/ /\ apiCalls' = Append(apiCalls, <<"upload_policy", "poll_raised">>)
          /\ remote' = remote \cup {PolicyFileName}
          /\ ClaimRaise(<<"Exception">>)
          /\ UNCHANGED policy_file_data
       \/ \E st \in FileStates, uri \in FileUris :
             /\ apiCalls' = Append(apiCalls, <<"upload_policy", st>>)
             /\ remote' = remote \cup {PolicyFileName}
             /\ IF UploadReturns(st)
                THEN /\ policy_file_data' = FileHandle(PolicyFileName, uri)
                     /\ cpc' = "extract_id"
                     /\ UNCHANGED claimRaised
                ELSE /\ ClaimRaise(<<"Exception">>)
                     /\ UNCHANGED policy_file_data
    /\ UNCHANGED <<policy_filepath, product_filepath, product_file_data,
                   extracted_product_id, is_coverage_element_covered, disk,
                   idReply, coverReply, finalAnswer>>
    /\ UNCHANGED <<coreVars, uploadVars, retryVars, tokenVars>>

\* extracted_product_id = policy_agent.extract_product_id_from_file(uri)
ExtractProductId ==
    /\ cpc = "extract_id"
    /\ cpc' = "step2"
    /\ IF ~Truthy(FileUri(policy_file_data))
       THEN /\ extracted_product_id' = None
            /\ UNCHANGED <<apiCalls, idReply>>
       ELSE \/ \E text \in IdReplies :
                  /\ idReply' = text
                  /\ extracted_product_id' = ProductIdFromReply(text)
                  /\ apiCalls' = Append(apiCalls, <<"llm_extract_id", "text">>)
            \/ /\ extracted_product_id' = None
               /\ apiCalls' = Append(apiCalls, <<"llm_extract_id", "raised">>)
               /\ UNCHANGED idReply
    /\ UNCHANGED <<policy_filepath, policy_file_data, product_filepath,
                   product_file_data, is_coverage_element_covered, disk,
                   remote, claimRaised, coverReply, finalAnswer>>
    /\ UNCHANGED <<coreVars, uploadVars, retryVars, tokenVars>>

\* `if extracted_product_id:` then
\* product_response_json = product_agent.fetch_product_schema_data(...)
FetchProduct ==
    /\ cpc = "step2"
    /\ IF Truthy(extracted_product_id)
       THEN \E r \in FetchResults :
               /\ apiCalls' = Append(apiCalls,
                      <<"fetch_product", IF Truthy(r) THEN "ok" ELSE "failed">>)
               /\ cpc' = IF Truthy(r) THEN "save_product" ELSE "step3"
       ELSE /\ cpc' = "step3"
            /\ UNCHANGED apiCalls
    /\ UNCHANGED <<policy_filepath, policy_file_data, product_filepath,
                   product_file_data, extracted_product_id,
                   is_coverage_element_covered, disk, remote, claimRaised,
                   idReply, coverReply, finalAnswer>>
    /\ UNCHANGED <<coreVars, uploadVars, retryVars, tokenVars>>

\* product_filepath = ...; with open(product_filepath, 'w') as f: json.dump
SaveProduct ==
    /\ cpc = "save_product"
    /\ product_filepath' = ProductPath
    /\ \/ /\ disk' = disk \cup {ProductPath}
          /\ cpc' = "upload_product"
          /\ UNCHANGED claimRaised
       \/ /\ disk' = disk
          /\ ClaimRaise(<<"OSError">>)
       \/ /\ disk' = disk \cup {ProductPath}
          /\ ClaimRaise(<<"OSError">>)
    /\ UNCHANGED <<policy_filepath, policy_file_data, product_file_data,
                   extracted_product_id, is_coverage_element_covered, remote,
                   apiCalls, idReply, coverReply, finalAnswer>>
    /\ UNCHANGED <<coreVars, uploadVars, retryVars, tokenVars>>

\* product_file_data = upload_to_gemini(product_filepath, ...)
UploadProduct ==
    /\ cpc = "upload_product"
    /\ \/ /\ apiCalls' = Append(apiCalls, <<"upload_product", "upload_raised">>)
          /\ ClaimRaise(<<"Exception">>)
          /\ UNCHANGED <<remote, product_file_data>>
       \/ /\ apiCalls' = Append(apiCalls, <<"upload_product", "poll_raised">>)
          /\ remote' = remote \cup {ProductFileName}
          /\ ClaimRaise(<<"Exception">>)
          /\ UNCHANGED product_file_data
       \/ \E st \in FileStates, uri \in FileUris :
             /\ apiCalls' = Append(apiCalls, <<"upload_product", st>>)
             /\ remote' = remote \cup {ProductFileName}
             /\ IF UploadReturns(st)
                THEN /\ product_file_data' = FileHandle(ProductFileName, uri)
                     /\ cpc' = "check_coverage"
                     /\ UNCHANGED claimRaised
                ELSE /\ ClaimRaise(<<"Exception">>)
                     /\ UNCHANGED product_file_data
    /\ UNCHANGED <<policy_filepath, policy_file_data, product_filepath,
                   extracted_product_id, is_coverage_element_covered, disk,
                   idReply, coverReply, finalAnswer>>
    /\ UNCHANGED <<coreVars, uploadVars, retryVars, tokenVars>>

\* is_coverage_element_covered = product_agent.check_coverage_in_file(...)
CheckCoverage ==
    /\ cpc = "check_coverage"
    /\ cpc' = "step3"
    /\ IF ~Truthy(FileUri(product_file_data))
       THEN /\ is_coverage_element_covered' = FALSE
            /\ UNCHANGED <<apiCalls, coverReply>>
       ELSE \/ \E text \in CoverReplies :
                  /\ coverReply' = text
                  /\ is_coverage_element_covered' = CoverageVerdict(text)
                  /\ apiCalls' = Append(apiCalls,
                                        <<"llm_check_coverage", "text">>)
            \/ /\ is_coverage_element_covered' = FALSE
               /\ apiCalls' = Append(apiCalls,
                                     <<"llm_check_coverage", "raised">>)
               /\ UNCHANGED coverReply
    /\ UNCHANGED <<policy_filepath, policy_file_data, product_filepath,
                   product_file_data, extracted_product_id, disk, remote,
                   claimRaised, idReply, finalAnswer>>
    /\ UNCHANGED <<coreVars, uploadVars, retryVars, tokenVars>>

\* final_answer = synth_agent.synthesize_answer_with_files(...) and the
\* print of it: the attribute lookup raises AttributeError when the class
\* has no such method; a synthesis method returns the answer or, after any
\* internal failure, its error response.
ClaimStep3 ==
    /\ cpc = "step3"
    /\ IF SynthesisCall \in SynthesisAgentMethods
       THEN /\ apiCalls' = Append(apiCalls, <<"synthesize", "called">>)
            /\ finalAnswer' \in {<<"[answer]">>, <<"[error response]">>}
            /\ cpc' = "finally"
            /\ UNCHANGED claimRaised
       ELSE /\ ClaimRaise(<<"AttributeError">>)
            /\ UNCHANGED <<apiCalls, finalAnswer>>
    /\ UNCHANGED <<policy_filepath, policy_file_data, product_filepath,
                   product_file_data, extracted_product_id,
                   is_coverage_element_covered, disk, remote, idReply,
                   coverReply>>
    /\ UNCHANGED <<coreVars, uploadVars, retryVars, tokenVars>>

\* The files the finally clause removes from disk: a path that was set and
\* exists.
RemovedFromDisk ==
    {f \in {policy_filepath, product_filepath} : f # None /\ f \in disk}

\* The files the finally clause deletes from the Files API: those whose
\* handle main holds.
DeletedFromRemote ==
    {FileName(d) :
        d \in {x \in {policy_file_data, product_file_data} : x # None}}

\* The finally clause; os.remove and genai.delete_file are taken to
\* succeed.  An exception on its way out goes on after it.
ClaimFinally ==
    /\ cpc = "finally"
    /\ disk' = disk \ RemovedFromDisk
    /\ remote' = remote \ DeletedFromRemote
    /\ cpc' = "exited"
    /\ UNCHANGED <<policy_filepath, policy_file_data, product_filepath,
                   product_file_data, extracted_product_id,
                   is_coverage_element_covered, claimRaised, apiCalls,
                   idReply, coverReply, finalAnswer>>
    /\ UNCHANGED <<coreVars, uploadVars, retryVars, tokenVars>>

NextClaim ==
    \/ FetchPolicy
    \/ SavePolicy
    \/ UploadPolicy
    \/ ExtractProductId
    \/ FetchProduct
    \/ SaveProduct
    \/ UploadProduct
    \/ CheckCoverage
    \/ ClaimStep3
    \/ ClaimFinally

SpecClaim == InitClaim /\ [][NextClaim]_vars

\* The call named was made, with any outcome.
Called(name) == \E i \in 1..Len(apiCalls) : apiCalls[i][1] = name

\* The call named was made and had the outcome given.
CalledWith(name, outcome) ==
    \E i \in 1..Len(apiCalls) : apiCalls[i] = <<name, outcome>>

\* C21: on every exit of main after the try block was entered, every
\* temporary file written has been removed and every file uploaded to the
\* Files API has been deleted from it.
C21_CleanupOnEveryExit ==
    cpc = "exited" => (disk = {} /\ remote = {})

\* C22: the product-schema API is called only after the policy fetch
\* succeeded and the LLM gave a non-empty product id other than NOT_FOUND,
\* and the verdict is True only if the product schema was fetched and
\* uploaded and the trimmed, lower-cased reply is "true".
C22_VerdictFailClosed ==
    /\ Called("fetch_product") =>
          /\ Len(apiCalls) >= 4
          /\ apiCalls[1] = <<"fetch_policy", "ok">>
          /\ apiCalls[3] = <<"llm_extract_id", "text">>
          /\ apiCalls[4][1] = "fetch_product"
          /\ idReply # None
          /\ Strip(idReply) # <<>>
          /\ Strip(idReply) # NotFound
          /\ extracted_product_id = Strip(idReply)
    /\ is_coverage_element_covered =>
          /\ CalledWith("fetch_product", "ok")
          /\ \E st \in {"READY", "ACTIVE"} : CalledWith("upload_product", st)
          /\ product_file_data # None
          /\ Truthy(FileUri(product_file_data))
          /\ coverReply # None
          /\ Lower(Strip(coverReply)) = TrueText

\* The verdict is True after the reply " true\n".
C22_Witness ==
    /\ cpc = "exited"
    /\ is_coverage_element_covered
    /\ coverReply = <<" ", "t", "r", "u", "e", "\n">>
    /\ idReply = <<" ", "P", "1", "\n">>

\* C23: whenever steps 1 and 2 finish without raising, step 3 invokes the
\* SynthesisAgent and main prints a final answer before cleanup, and the
\* synthesis step does not raise.
C23_SynthesisAlwaysAnswers ==
    (cpc \in {"finally", "exited"}
        /\ claimRaised \notin {<<"OSError">>, <<"Exception">>})
        => /\ Called("synthesize")
           /\ finalAnswer # None
           /\ claimRaised = None

-----------------------------------------------------------------------------
(* An empty result in query_database *)

\* C24: in query_database a statement that executes without error and
\* returns no rows makes the loop return the empty row set at once: the
\* attempt counter, the error and the number of generation calls stay as
\* they were; and None is returned only when the budget was exhausted.
C24_EmptyResultReturned ==
    variant = "agent" =>
        /\ (execCalls >= 1 /\ lastExec.msg = None /\ lastExec.rows = <<>>) =>
              /\ pc = "returned"
              /\ result = <<>>
              /\ attempt = Len(trace) - 1
              /\ genCalls = Len(trace)
              /\ errFrom < Len(trace)
        /\ (pc = "returned" /\ result = None) =>
              /\ attempt = max_retries
              /\ Len(trace) = max_retries
              /\ \A i \in 1..Len(trace) : FailedEntry(trace[i])

\* query_database returned an empty row set on its second attempt.
C24_Witness ==
    /\ variant = "agent"
    /\ pc = "returned"
    /\ result = <<>>
    /\ Len(trace) = 2
    /\ trace[2][2] = "empty"
    /\ attempt = 1

-----------------------------------------------------------------------------
(* TokenManager: medical_claim_analysis/utils/token_manager.py *)

\* Longest time a run takes, in seconds.
MaxTime == 130

\* time.time() when the run starts.
StartTime == 1000

\* Most calls of get_token in a run.
MaxTokenCalls == 3

\* The buffer subtracted from expire_in.
ExpiryBuffer == 60

\* The amounts by which the clock advances between two calls.
TimeSteps == {59, 60}

\* Seconds a token request takes.
FetchLatencies == {0, 1}

\* Values of 'access_token' in a response: absent, empty, or a token.
AccessTokens == { None, <<>>, <<"[token a]">>, <<"[token b]">> }

\* Values of 'expire_in' in a response: absent, a string, or a number of
\* seconds.
ExpireIns ==
    { <<"absent", 0>>, <<"str", 3600>>,
      <<"int", 30>>, <<"int", 60>>, <<"int", 61>>, <<"int", 120>> }

\* isinstance(expire_in, (int, float))
IsNumber(x) == x[1] \in {"int", "float"}

\* The token request: it fails (connection, HTTP status, body that is not
\* JSON), or the body is JSON but no object, or the body is an object.
TokenResponses ==
    { <<"request_error", None, <<"absent", 0>> >>,
      <<"json_not_object", None, <<"absent", 0>> >> }
        \cup { <<"object", t, e>> : t \in AccessTokens, e \in ExpireIns }

\* `if not self._token or time.time() >= self._expiry_time`
NeedsFetch(token, now, expiry) == ~Truthy(token) \/ now >= expiry

\* `if token and isinstance(expire_in, (int, float))`
ResponseUsable(resp) ==
    resp[1] = "object" /\ Truthy(resp[2]) /\ IsNumber(resp[3])

\* `self._expiry_time = time.time() + expire_in - 60`
RecordedExpiry(now, expire_in) == now + expire_in - ExpiryBuffer

InitToken ==
    /\ SqlIdle
    /\ pureOp = "none"
    /\ pureIn = None
    /\ ClaimIdle /\ UploadIdle /\ RetryIdle
    /\ tmToken = None
    /\ tmExpiry = 0
    /\ tmNow = StartTime
    /\ tmOut = None
    /\ tmCalls = 0

\* Time passes between two calls of get_token.
TokenTick ==
    /\ tmCalls < MaxTokenCalls
    /\ \E d \in TimeSteps :
          /\ tmNow + d <= StartTime + MaxTime
          /\ tmNow' = tmNow + d
    /\ UNCHANGED <<tmToken, tmExpiry, tmOut, tmCalls>>
    /\ UNCHANGED <<coreVars, claimVars, uploadVars, retryVars>>

\* token_manager.get_token(), with _fetch_new_token when it is called.
\* tmOut records: how the call ended, what it returned, the time of the
\* test, whether a request was made, and _token and _expiry_time before.
GetToken ==
    /\ tmCalls < MaxTokenCalls
    /\ tmCalls' = tmCalls + 1
    /\ IF NeedsFetch(tmToken, tmNow, tmExpiry)
       THEN \E resp \in TokenResponses, lat \in FetchLatencies :
               /\ tmNow' = tmNow + lat
               /\ IF resp[1] = "json_not_object"
                  THEN /\ tmOut' = <<"raised", <<"AttributeError">>, tmNow,
                                     TRUE, tmToken, tmExpiry>>
                       /\ UNCHANGED <<tmToken, tmExpiry>>
                  ELSE IF ResponseUsable(resp)
                  THEN /\ tmToken' = resp[2]
                       /\ tmExpiry' = RecordedExpiry(tmNow', resp[3][2])
                       /\ tmOut' = <<"returned", resp[2], tmNow, TRUE,
                                     tmToken, tmExpiry>>
                  ELSE /\ tmOut' = <<"returned", None, tmNow, TRUE,
                                     tmToken, tmExpiry>>
                       /\ UNCHANGED <<tmToken, tmExpiry>>
       ELSE /\ tmOut' = <<"returned", tmToken, tmNow, FALSE, tmToken,
                          tmExpiry>>
            /\ UNCHANGED <<tmToken, tmExpiry, tmNow>>
    /\ UNCHANGED <<coreVars, claimVars, uploadVars, retryVars>>

NextToken == TokenTick \/ GetToken

SpecToken == InitToken /\ [][NextToken]_vars

\* C25: get_token never returns a token at or after that token's recorded
\* expiry; it returns the cached token without a request only when one is
\* cached and the time is before the recorded expiry; otherwise it returns
\* the result of a fresh fetch, which is None when the fetch fails or the
\* response lacks a token or a numeric expire_in, and then the cached token
\* and expiry are as before and the stale token is not returned.
C25_TokenNeverStale ==
    tmOut # None =>
        LET ended == tmOut[1]
            ret == tmOut[2]
            at == tmOut[3]
            fetched == tmOut[4]
            tokenBefore == tmOut[5]
            expiryBefore == tmOut[6]
        IN  /\ ended = "returned"
            /\ ret # None => (ret = tmToken /\ at < tmExpiry)
            /\ ~fetched <=> (Truthy(tokenBefore) /\ at < expiryBefore)
            /\ ~fetched => ret = tokenBefore
            /\ (fetched /\ ret = None) =>
                  (tmToken = tokenBefore /\ tmExpiry = expiryBefore)

-----------------------------------------------------------------------------
(* _generate_content_with_retry: the tenacity decorator of the agents *)

\* stop=tenacity.stop_after_attempt(3)
MaxAttempts == 3

\* "400 File"
Text400File == <<"4", "0", "0", " ", "F", "i", "l", "e">>

\* "not exist"
TextNotExist == <<"n", "o", "t", " ", "e", "x", "i", "s", "t">>

\* The classes that derive from Exception among those raised.
ExceptionClasses == {"Exception", "ValueError", "InvalidArgument"}

\* What model.generate_content may raise.
GenerateExceptions ==
    { <<"raise", "InvalidArgument",
        Text400File \o <<" ", "x", " ">> \o TextNotExist>>,
      <<"raise", "Exception",
        TextNotExist \o <<":", " ">> \o Text400File>>,
      <<"raise", "ValueError", Text400File \o <<" ">> \o TextNotExist>>,
      <<"raise", "Exception",
        <<"x">> \o Text400File \o <<"s", " ">> \o TextNotExist \o <<"s">> >>,
      <<"raise", "InvalidArgument", Text400File \o <<" ", "b", "i", "g">> >>,
      <<"raise", "Exception", <<"d", "i", "d", " ">> \o TextNotExist>>,
      <<"raise", "Exception", <<"4", "0", "0", " ", "f", "i", "l", "e", " ">>
                                  \o TextNotExist>>,
      <<"raise", "Exception", <<>> >>,
      <<"raise", "KeyboardInterrupt",
        Text400File \o <<" ">> \o TextNotExist>> }

\* What model.generate_content may return.
GenerateResponses ==
    { <<"ok", "response", <<"t", "e", "x", "t">> >>,
      <<"ok", "response", <<>> >> }

\* Mutation of RetryIf: one of the two texts is enough.
RetryIf_Either(exc) ==
    /\ exc[2] \in ExceptionClasses
    /\ (Contains(exc[3], Text400File) \/ Contains(exc[3], TextNotExist))

\* retry=retry_if_exception_type(Exception) & retry_if_exception(
\*     lambda e: "400 File" in str(e) and "not exist" in str(e))
RetryIf(exc) ==
    /\ exc[2] \in ExceptionClasses
    /\ Contains(exc[3], Text400File)
    /\ Contains(exc[3], TextNotExist)

\* stop_after_attempt: stop once the attempt number has reached the limit.
ShouldStop(attempt_number) == attempt_number >= MaxAttempts

InitRetry ==
    /\ SqlIdle
    /\ pureOp = "none"
    /\ pureIn = None
    /\ ClaimIdle /\ UploadIdle /\ TokenIdle
    /\ rtPc = "call"
    /\ rtCalls = 0
    /\ rtLog = <<>>
    /\ rtOutcome = None

\* One attempt: model.generate_content(prompt, stream=False) returns, or it
\* raises and the decorator decides between another attempt and letting
\* the exception out (reraise=True: the last exception itself).
RetryInvoke ==
    /\ rtPc = "call"
    /\ rtCalls' = rtCalls + 1
    /\ \/ \E resp \in GenerateResponses :
             /\ rtLog' = Append(rtLog, resp)
             /\ rtOutcome' = <<"returned", resp[2], resp[3]>>
             /\ rtPc' = "returned"
       \/ \E exc \in GenerateExceptions :
             /\ rtLog' = Append(rtLog, exc)
             /\ IF RetryIf(exc) /\ ~ShouldStop(rtCalls')
                THEN /\ rtPc' = "wait"
                     /\ UNCHANGED rtOutcome
                ELSE /\ rtPc' = "raised"
                     /\ rtOutcome' = <<"raised", exc[2], exc[3]>>
    /\ UNCHANGED <<coreVars, claimVars, uploadVars, tokenVars>>

\* wait=tenacity.wait_fixed(5)
RetryWait ==
    /\ rtPc = "wait"
    /\ rtPc' = "call"
    /\ UNCHANGED <<rtCalls, rtLog, rtOutcome>>
    /\ UNCHANGED <<coreVars, claimVars, uploadVars, tokenVars>>

NextRetry == RetryInvoke \/ RetryWait

SpecRetry == InitRetry /\ [][NextRetry]_vars

\* The message of a raised exception contains both texts.
BothTexts(entry) ==
    /\ entry[1] = "raise"
    /\ Contains(entry[3], Text400File)
    /\ Contains(entry[3], TextNotExist)

\* C26: one call invokes model.generate_content at most 3 times; it
\* invokes again only after an exception whose message contains both
\* "400 File" and "not exist"; any other exception leaves at once; after a
\* third failure the last exception is raised; and the first response is
\* returned with no further invocation.
C26_AtMostThreeInvocations ==
    /\ rtCalls <= 3
    /\ rtCalls = Len(rtLog)
    /\ \A i \in 1..(Len(rtLog) - 1) : BothTexts(rtLog[i])
    /\ rtLog # <<>> =>
          LET last == rtLog[Len(rtLog)]
          IN  /\ last[1] = "ok" =>
                    /\ rtPc = "returned"
                    /\ rtOutcome = <<"returned", last[2], last[3]>>
              /\ (last[1] = "raise" /\ (~BothTexts(last) \/ Len(rtLog) = 3)) =>
                    /\ rtPc = "raised"
                    /\ rtOutcome = <<"raised", last[2], last[3]>>
              /\ rtPc = "raised" => rtOutcome = <<"raised", last[2], last[3]>>

\* The third invocation failed like the two before it and its exception
\* was raised.
C26_Witness ==
    /\ rtCalls = 3
    /\ rtPc = "raised"
    /\ BothTexts(rtLog[3])
    /\ rtLog[1] # rtLog[3]

-----------------------------------------------------------------------------
(* upload_to_gemini: the readiness poll *)

\* max_wait_time = 30
MaxWaitTime == 30

\* Seconds one round of the poll takes: time.sleep(2) and the get_file call.
PollDurations == {2, 3}

\* `current_file_status.state.name == "PROCESSING" and
\*  (time.time() - start_time) < max_wait_time`
PollCondition(state, elapsed) == state = "PROCESSING" /\ elapsed < MaxWaitTime

InitUpload ==
    /\ SqlIdle
    /\ pureOp = "none"
    /\ pureIn = None
    /\ ClaimIdle /\ RetryIdle /\ TokenIdle
    /\ upc = "upload"
    /\ upState = None
    /\ upElapsed = 0
    /\ upPolls = 0
    /\ upRemote = FALSE

\* file = genai.upload_file(...): the file is stored, or the call raises.
UploadFile ==
    /\ upc = "upload"
    /\ \/ upRemote' = TRUE /\ upc' = "first_get"
       \/ upRemote' = FALSE /\ upc' = "raised"
    /\ UNCHANGED <<upState, upElapsed, upPolls>>
    /\ UNCHANGED <<coreVars, claimVars, retryVars, tokenVars>>

\* current_file_status = genai.get_file(file_name); start_time = time.time()
FirstGet ==
    /\ upc = "first_get"
    /\ upPolls' = upPolls + 1
    /\ \/ \E st \in FileStates :
             /\ upState' = <<st>>
             /\ upc' = "test"
       \/ /\ upc' = "raised"
          /\ UNCHANGED upState
    /\ UNCHANGED <<upElapsed, upRemote>>
    /\ UNCHANGED <<coreVars, claimVars, retryVars, tokenVars>>

\* The test of the while loop.
PollTest ==
    /\ upc = "test"
    /\ upc' = IF PollCondition(upState[1], upElapsed) THEN "sleep"
                                                      ELSE "decide"
    /\ UNCHANGED <<upState, upElapsed, upPolls, upRemote>>
    /\ UNCHANGED <<coreVars, claimVars, retryVars, tokenVars>>

\* The body of the while loop: time.sleep(2) and genai.get_file(file_name).
SleepAndGet ==
    /\ upc = "sleep"
    /\ upPolls' = upPolls + 1
    /\ \E d \in PollDurations : upElapsed' = upElapsed + d
    /\ \/ \E st \in FileStates :
             /\ upState' = <<st>>
             /\ upc' = "test"
       \/ /\ upc' = "raised"
          /\ UNCHANGED upState
    /\ UNCHANGED upRemote
    /\ UNCHANGED <<coreVars, claimVars, retryVars, tokenVars>>

\* After the loop: return the file object or raise.
UploadDecide ==
    /\ upc = "decide"
    /\ upc' = IF UploadReturns(upState[1]) THEN "returned" ELSE "raised"
    /\ UNCHANGED <<upState, upElapsed, upPolls, upRemote>>
    /\ UNCHANGED <<coreVars, claimVars, retryVars, tokenVars>>

NextUpload ==
    \/ UploadFile
    \/ FirstGet
    \/ PollTest
    \/ SleepAndGet
    \/ UploadDecide

SpecUpload == InitUpload /\ [][NextUpload]_vars

\* The function is straight-line code around calls that come back: a step
\* that can be taken is taken.
SpecUploadFair == SpecUpload /\ WF_vars(NextUpload)

\* C27: upload_to_gemini returns a file handle only when the last state
\* observed is READY or ACTIVE; it polls again only while the state is
\* PROCESSING and less than 30 seconds have elapsed; the polling loop
\* ends; and a file still PROCESSING at the limit, or in any other state,
\* makes the function raise.
C27_PollingEndsReadyOrRaise ==
    /\ [](upc = "returned" => upState[1] \in {"READY", "ACTIVE"})
    /\ [](upc = "sleep" => (upState[1] = "PROCESSING" /\ upElapsed < 30))
    /\ [](upc = "decide" =>
             (upState[1] # "PROCESSING" \/ upElapsed >= 30))
    /\ [][(upc = "decide" /\ upState[1] \notin {"READY", "ACTIVE"})
             => upc' = "raised"]_vars
    /\ <>(upc \in {"returned", "raised"})

\* The file was still PROCESSING when the time was up, and the function
\* raised.
C27_Witness ==
    /\ upc = "raised"
    /\ upRemote
    /\ upState = <<"PROCESSING">>
    /\ upElapsed >= 30
    /\ upPolls >= 11

-----------------------------------------------------------------------------
(* calculate_health_score / MedicalAgent._calculate_health_scores *)

\* Most conditions in a record under test.
MaxConditions == 3

\* Most allergies, and most medications, in a record under test.
MaxItems == 2

\* Values of 'severity' in a condition; "absent" is a condition without
\* the key.
Severities == {"mild", "moderate", "severe", "critical", "absent"}

\* severity_map.get(condition.get('severity', 'mild'), 5)
SeverityPoints(severity) ==
    LET key == IF severity = "absent" THEN "mild" ELSE severity
    IN  CASE key = "mild" -> 5
          [] key = "moderate" -> 15
          [] key = "severe" -> 30
          [] OTHER -> 5

\* `if condition.get('chronic', False): score -= 10`
ChronicPoints(chronic) == IF chronic THEN 10 ELSE 0

\* The score after the loop over student.get('conditions', []).
RECURSIVE AfterConditions(_, _)
AfterConditions(score, conditions) ==
    IF conditions = <<>> THEN score
    ELSE AfterConditions(score - SeverityPoints(conditions[1][1])
                               - ChronicPoints(conditions[1][2]),
                         Tail(conditions))

\* max(a, b)
Max(a, b) == IF a >= b THEN a ELSE b

\* Mutation of StudentScore: the score is not clamped.
StudentScore_Unclamped(student) ==
    AfterConditions(100, student.conditions)
        - student.allergies * 3 - student.current_medications * 2

\* The value stored for one student: score = 100, the deductions, then
\* max(0, score).  Allergies and medications count by their number.
StudentScore(student) ==
    Max(0, AfterConditions(100, student.conditions)
               - student.allergies * 3 - student.current_medications * 2)

\* health_scores[key] = value
DictSet(dict, key, value) ==
    [k \in DOMAIN dict \cup {key} |-> IF k = key THEN value ELSE dict[k]]

\* The loop over the students: student['email'] raises KeyError when the
\* record has no email.
RECURSIVE ScoreStudents(_, _)
ScoreStudents(students, health_scores) ==
    IF students = <<>> THEN [raised |-> "none", scores |-> health_scores]
    ELSE IF students[1].email = None
    THEN [raised |-> "KeyError", scores |-> health_scores]
    ELSE ScoreStudents(Tail(students),
                       DictSet(health_scores, Lower(students[1].email),
                               StudentScore(students[1])))

\* calculate_health_score(medical_data) for medical_data['students']
CalculateHealthScore(students) == ScoreStudents(students, <<>>)

\* The conditions of one record: severity and chronic flag each.
ConditionKinds == Severities \X BOOLEAN

\* The lists of at most n conditions.
RECURSIVE ConditionLists(_)
ConditionLists(n) ==
    IF n = 0 THEN {<<>>}
    ELSE LET shorter == ConditionLists(n - 1)
         IN  shorter \cup {<<c>> \o cs : c \in ConditionKinds, cs \in shorter}

\* Emails of the records; None is a record without the key.
RecordEmails == { <<"A", "@", "x">>, <<"a", "@", "x">>, <<"b", "@", "x">>, None }

\* Records with many conditions, for the arithmetic.
RichStudents ==
    [email : {<<"A", "@", "x">>},
     conditions : ConditionLists(MaxConditions),
     allergies : 0..MaxItems,
     current_medications : 0..MaxItems]

\* Records with at most one condition, for the keying.
PlainStudents ==
    [email : RecordEmails,
     conditions : ConditionLists(1),
     allergies : {0, MaxItems},
     current_medications : {0}]

\* The record sets under test: none, one rich record, or two plain ones.
RecordSets ==
    {<<>>} \cup {<<r>> : r \in RichStudents}
           \cup {<<r1, r2>> : r1 \in PlainStudents, r2 \in PlainStudents}

InitHealth ==
    /\ PureIdle
    /\ pureOp = "health"
    /\ pureIn \in RecordSets

ApplyHealth ==
    /\ pureOp = "health"
    /\ ~pureDone
    /\ pureOut' = CalculateHealthScore(pureIn)
    /\ pureDone' = TRUE
    /\ UNCHANGED <<loopVars, callerVars, detVars, pureOp, pureIn>>
    /\ UNCHANGED extVars

NextHealth == ApplyHealth

SpecHealth == InitHealth /\ [][NextHealth]_vars

\* The deductions of a record as the scoring rule states them.
RECURSIVE ConditionDeductions(_)
ConditionDeductions(conditions) ==
    IF conditions = <<>> THEN 0
    ELSE (CASE conditions[1][1] = "moderate" -> 15
            [] conditions[1][1] = "severe" -> 30
            [] OTHER -> 5)
         + (IF conditions[1][2] THEN 10 ELSE 0)
         + ConditionDeductions(Tail(conditions))

Deductions(student) ==
    ConditionDeductions(student.conditions)
        + 3 * student.allergies + 2 * student.current_medications

\* The last record of the set whose lower-cased email is key.
LastRecordFor(key) ==
    pureIn[CHOOSE i \in 1..Len(pureIn) :
              /\ Lower(pureIn[i].email) = key
              /\ \A j \in (i + 1)..Len(pureIn) : Lower(pureIn[j].email) # key]

\* C28: each computed health score is an integer in 0..100 and equals
\* max(0, 100 - deductions), with 5/15/30 per mild/moderate/severe
\* condition (5 for a missing or unknown severity), 10 more per chronic
\* condition, 3 per allergy and 2 per medication; the scores are keyed by
\* lower-cased email, and of two records with the same email the later
\* one's score stays.
C28_HealthScoreFormula ==
    (pureOp = "health" /\ pureDone /\ pureOut.raised = "none") =>
        /\ DOMAIN pureOut.scores =
              {Lower(pureIn[i].email) : i \in 1..Len(pureIn)}
        /\ \A key \in DOMAIN pureOut.scores :
              /\ pureOut.scores[key] \in 0..100
              /\ pureOut.scores[key] =
                    (LET d == Deductions(LastRecordFor(key))
                     IN  IF d >= 100 THEN 0 ELSE 100 - d)

\* Two records with the same email but for its case were scored, the
\* later with the lower score.
C28_Witness ==
    /\ pureOp = "health"
    /\ pureDone
    /\ pureOut.raised = "none"
    /\ Len(pureIn) = 2
    /\ pureIn[1].email = <<"A", "@", "x">>
    /\ pureIn[2].email = <<"a", "@", "x">>
    /\ DOMAIN pureOut.scores = {<<"a", "@", "x">>}
    /\ StudentScore(pureIn[1]) > StudentScore(pureIn[2])

-----------------------------------------------------------------------------
(* The float arithmetic of the combined score.  A float is held exactly, *)
(* as a natural number of units of 2^-54 written in binary, lowest bit   *)
(* first and without high zero bits; zero is the empty sequence.         *)

\* CPython floats are IEEE 754 doubles: 53 significant bits.
Mantissa == 53

\* The four bits of a hexadecimal digit, lowest first.
Nibble(d) == <<d % 2, (d \div 2) % 2, (d \div 4) % 2, (d \div 8) % 2>>

\* A number without its high zero bits.
RECURSIVE Normalized(_)
Normalized(a) ==
    IF a = <<>> THEN <<>>
    ELSE IF a[Len(a)] = 0 THEN Normalized(SubSeq(a, 1, Len(a) - 1))
    ELSE a

\* The number written by hexadecimal digits, highest first.
RECURSIVE HexBits(_)
HexBits(digits) ==
    IF digits = <<>> THEN <<>>
    ELSE Nibble(digits[Len(digits)])
            \o HexBits(SubSeq(digits, 1, Len(digits) - 1))

\* (0.7).hex() is 0x1.6666666666666p-1: 0.7 is 0x16666666666666 * 2^-53.
Float07 ==
    <<0>> \o Normalized(HexBits(<<1, 6, 6, 6, 6, 6, 6, 6, 6, 6, 6, 6, 6, 6>>))

\* (0.3).hex() is 0x1.3333333333333p-2: 0.3 is 0x13333333333333 * 2^-54.
Float03 == Normalized(HexBits(<<1, 3, 3, 3, 3, 3, 3, 3, 3, 3, 3, 3, 3, 3>>))

\* The exact sum a + b + carry.
RECURSIVE AddCarry(_, _, _)
AddCarry(a, b, carry) ==
    IF a = <<>> /\ b = <<>> THEN (IF carry = 1 THEN <<1>> ELSE <<>>)
    ELSE LET x == IF a = <<>> THEN 0 ELSE a[1]
             y == IF b = <<>> THEN 0 ELSE b[1]
             sum == x + y + carry
         IN  <<sum % 2>> \o AddCarry(IF a = <<>> THEN <<>> ELSE Tail(a),
                                     IF b = <<>> THEN <<>> ELSE Tail(b),
                                     sum \div 2)

\* The exact product of a by the integer n.
RECURSIVE TimesInt(_, _)
TimesInt(a, n) ==
    IF n = 0 \/ a = <<>> THEN <<>>
    ELSE LET rest == TimesInt(<<0>> \o a, n \div 2)
         IN  IF n % 2 = 1 THEN AddCarry(a, rest, 0) ELSE rest

\* The double nearest to the exact value a, ties to the even mantissa.
RoundToDouble(a) ==
    IF Len(a) <= Mantissa THEN a
    ELSE LET k == Len(a) - Mantissa
             kept == SubSeq(a, k + 1, Len(a))
             above == a[k] = 1 /\ \E i \in 1..(k - 1) : a[i] = 1
             half == a[k] = 1 /\ \A i \in 1..(k - 1) : a[i] = 0
             up == above \/ (half /\ kept[1] = 1)
         IN  [i \in 1..k |-> 0]
                \o (IF up THEN AddCarry(kept, <<1>>, 0) ELSE kept)

\* a < b
FloatLess(a, b) ==
    \/ Len(a) < Len(b)
    \/ /\ Len(a) = Len(b)
       /\ \E i \in 1..Len(a) :
             /\ a[i] < b[i]
             /\ \A j \in (i + 1)..Len(a) : a[j] = b[j]

\* (math_score * 0.7) + (health_score * 0.3), each operation rounded.
CombinedScore(math_score, health_score) ==
    RoundToDouble(AddCarry(RoundToDouble(TimesInt(Float07, math_score)),
                           RoundToDouble(TimesInt(Float03, health_score)),
                           0))

-----------------------------------------------------------------------------
(* find_healthiest_top_student / AnalysisAgent.find_healthiest_top_math *)

\* Highest math score, and highest health score, under test.
MaxScore == 7

\* Most rows in the database result under test.
MaxStudents == 2

Scores == 0..MaxScore

\* The combined score of each pair of scores under test.
CombinedScores ==
    [math_score \in Scores |->
        [health_score \in Scores |->
            CombinedScore(math_score, health_score)]]

\* Emails in the database rows.
RowEmails == { <<"A", "@", "x">>, <<"b", "@", "x">>, <<"c", "@", "x">> }

\* Keys of the health scores, lower-cased by calculate_health_score.
HealthEmails == { <<"a", "@", "x">>, <<"b", "@", "x">> }

\* A row of the top-math query.
MathRows == [email : RowEmails, math_score : Scores]

\* The lists of at most n rows.
RECURSIVE RowLists(_)
RowLists(n) ==
    IF n = 0 THEN {<<>>}
    ELSE LET shorter == RowLists(n - 1)
         IN  shorter \cup {<<r>> \o rs : r \in MathRows, rs \in shorter}

\* What the query gives: None after a database error, or the rows.
MathStudents ==
    {[kind |-> "None", rows |-> <<>>]}
        \cup [kind : {"rows"}, rows : RowLists(MaxStudents)]

\* What the medical side gives: None, or the dict of health scores.
HealthScores ==
    {[kind |-> "None", dict |-> <<>>]}
        \cup [kind : {"dict"},
              dict : UNION {[D -> Scores] : D \in SUBSET HealthEmails}]

\* The methods of DatabaseAgent.
DatabaseAgentMethods ==
    {"connect", "disconnect", "get_schema", "_build_sql_prompt",
     "_extract_valid_sql", "query_database"}

\* The method find_healthiest_top_math calls on its db_agent.
TopMathCall == "execute_query"

\* The object behind self.db: the package's DatabaseAgent, or another
\* object that has the method called.
DbAgents == {"DatabaseAgent", "other"}

\* The two implementations and what they are given.
SelectInputs ==
    [variant : {"script"}, db : {"cursor"},
     math_students : MathStudents, health_scores : HealthScores]
    \cup [variant : {"package"}, db : DbAgents,
          math_students : MathStudents, health_scores : HealthScores]

\* `not math_students`, `not health_scores`
NoRows(math_students) ==
    math_students.kind = "None" \/ math_students.rows = <<>>

NoScores(health_scores) ==
    health_scores.kind = "None" \/ health_scores.dict = <<>>

\* The loop over math_students from row i on: an entry for each row
\* whose lower-cased email is a key of health_scores.
RECURSIVE MatchedFrom(_, _, _)
MatchedFrom(i, rows, dict) ==
    IF i > Len(rows) THEN <<>>
    ELSE LET email == Lower(rows[i].email)
         IN  IF email \in DOMAIN dict
             THEN <<[row |-> i,
                     email |-> email,
                     math_score |-> rows[i].math_score,
                     health_score |-> dict[email],
                     combined_score |->
                         CombinedScores[rows[i].math_score][dict[email]]]>>
                    \o MatchedFrom(i + 1, rows, dict)
             ELSE MatchedFrom(i + 1, rows, dict)

\* x put into a list sorted by combined_score, highest first, ahead of
\* the entries that are not greater.
RECURSIVE InsertDescending(_, _)
InsertDescending(x, sorted) ==
    IF sorted = <<>> THEN <<x>>
    ELSE IF FloatLess(x.combined_score, sorted[1].combined_score)
    THEN <<sorted[1]>> \o InsertDescending(x, Tail(sorted))
    ELSE <<x>> \o sorted

\* sort(key=combined_score, reverse=True): stable, equal keys keep order.
RECURSIVE SortDescending(_)
SortDescending(results) ==
    IF results = <<>> THEN <<>>
    ELSE InsertDescending(results[1], SortDescending(Tail(results)))

\* The value the selection gives for an input.
FindHealthiest(in) ==
    IF in.variant = "package" /\ in.db = "DatabaseAgent"
          /\ TopMathCall \notin DatabaseAgentMethods
    THEN [value |-> "AttributeError"]
    ELSE IF NoScores(in.health_scores) \/ NoRows(in.math_students)
    THEN [value |-> "None"]
    ELSE LET results == MatchedFrom(1, in.math_students.rows,
                                    in.health_scores.dict)
         IN  IF results = <<>> THEN [value |-> "None"]
             ELSE [value |-> "student",
                   student |-> SortDescending(results)[1]]

InitSelect ==
    /\ PureIdle
    /\ pureOp = "select"
    /\ pureIn \in SelectInputs

ApplySelect ==
    /\ pureOp = "select"
    /\ ~pureDone
    /\ pureOut' = FindHealthiest(pureIn)
    /\ pureDone' = TRUE
    /\ UNCHANGED <<loopVars, callerVars, detVars, pureOp, pureIn>>
    /\ UNCHANGED extVars

NextSelect == ApplySelect

SpecSelect == InitSelect /\ [][NextSelect]_vars

\* The rows of the input whose lower-cased email has a health score.
Eligible ==
    {i \in 1..Len(pureIn.math_students.rows) :
        Lower(pureIn.math_students.rows[i].email)
            \in DOMAIN pureIn.health_scores.dict}

\* Ten times the combined score of row i, as an integer.
TenfoldScore(i) ==
    7 * pureIn.math_students.rows[i].math_score
        + 3 * pureIn.health_scores.dict[
                  Lower(pureIn.math_students.rows[i].email)]

\* C29: the selection returns, among the rows whose lower-cased email has
\* a health score, one with the maximum of 7*math + 3*health, the first
\* such row in the order of the database result; it returns None when
\* there are no health scores, no rows or no row with a health score, and
\* never a student without a health score.
C29_FirstOfTheBest ==
    (pureOp = "select" /\ pureDone) =>
        IF \/ NoScores(pureIn.health_scores)
           \/ NoRows(pureIn.math_students)
           \/ Eligible = {}
        THEN pureOut.value = "None"
        ELSE /\ pureOut.value = "student"
             /\ pureOut.student.row \in Eligible
             /\ \A j \in Eligible :
                   /\ TenfoldScore(j) <= TenfoldScore(pureOut.student.row)
                   /\ TenfoldScore(j) = TenfoldScore(pureOut.student.row)
                         => pureOut.student.row <= j

\* C29, the part that holds of the script: the student returned has a
\* health score and no eligible row has a greater 7*math + 3*health.
C29_ScriptReturnsAMaximum ==
    (pureOp = "select" /\ pureDone /\ pureIn.variant = "script") =>
        IF \/ NoScores(pureIn.health_scores)
           \/ NoRows(pureIn.math_students)
           \/ Eligible = {}
        THEN pureOut.value = "None"
        ELSE /\ pureOut.value = "student"
             /\ pureOut.student.row \in Eligible
             /\ \A j \in Eligible :
                   TenfoldScore(j) <= TenfoldScore(pureOut.student.row)

\* C29, the failing case in the script: two rows tie in 7*math + 3*health
\* and the second is returned.
C29_ScriptTieKeepsFirst ==
    (pureOp = "select" /\ pureDone /\ pureIn.variant = "script"
        /\ pureOut.value = "student") =>
        \A j \in Eligible :
            TenfoldScore(j) = TenfoldScore(pureOut.student.row)
                => pureOut.student.row <= j

-----------------------------------------------------------------------------
(* process_medical_files / MedicalAgent.get_health_scores *)

\* Most medical-history files in the folder under test.
MaxFiles == 3

\* Two student records an extraction can give.
RecordA ==
    [email |-> <<"A", "@", "x">>, conditions |-> <<>>,
     allergies |-> 0, current_medications |-> 0]

RecordB ==
    [email |-> <<"b", "@", "x">>, conditions |-> <<<<"severe", TRUE>>>>,
     allergies |-> 1, current_medications |-> 0]

\* The 'students' lists of a parsed extraction.
StudentLists == {<<>>, <<RecordA>>, <<RecordB>>, <<RecordA, RecordB>>}

\* What happens with one file: the download or the PDF read fails or
\* gives no text; or the text is read and generate_content raises, or
\* its text does not parse, or parses to a value that is not an object
\* (a list), or parses to an object with a 'students' list.
FileOutcomes ==
    {[download |-> "failed", llm |-> "none", students |-> <<>>]}
        \cup [download : {"ok"},
              llm : {"raises", "unparseable", "not_object"},
              students : {<<>>}]
        \cup [download : {"ok"}, llm : {"object"}, students : StudentLists]

\* The lists of at most n files.
RECURSIVE FileLists(_)
FileLists(n) ==
    IF n = 0 THEN {<<>>}
    ELSE LET shorter == FileLists(n - 1)
         IN  shorter \cup {<<f>> \o fs : f \in FileOutcomes, fs \in shorter}

\* extract_medical_history of the script: the text, or None when
\* generate_content raised.
ScriptExtract(file) ==
    IF file.llm = "raises" THEN None ELSE <<file.llm>>

\* The script's loop over pdf_files: a file that failed to download, an
\* extraction that gave None, and a text json.loads or .get rejects are
\* each passed over.
RECURSIVE ScriptLoop(_, _)
ScriptLoop(files, students) ==
    IF files = <<>> THEN students
    ELSE IF files[1].download = "failed"
    THEN ScriptLoop(Tail(files), students)
    ELSE IF ~Truthy(ScriptExtract(files[1]))
    THEN ScriptLoop(Tail(files), students)
    ELSE IF ScriptExtract(files[1]) \in {<<"unparseable">>, <<"not_object">>}
    THEN ScriptLoop(Tail(files), students)
    ELSE ScriptLoop(Tail(files), students \o files[1].students)

\* process_medical_files(drive_service, folder_id)
ProcessMedicalFiles(files) ==
    IF files = <<>> THEN [value |-> "None"]
    ELSE LET students == ScriptLoop(files, <<>>)
         IN  IF students = <<>> THEN [value |-> "None"]
             ELSE [value |-> "data", students |-> students]

\* MedicalAgent._extract_medical_history: generate_content is called
\* ahead of the try, so its exception leaves the method; eval inside the
\* try gives None for a text that does not evaluate.
PackageExtract(file) ==
    CASE file.llm = "raises" -> [raised |-> TRUE, value |-> "None"]
      [] file.llm = "unparseable" -> [raised |-> FALSE, value |-> "None"]
      [] OTHER -> [raised |-> FALSE, value |-> file.llm]

\* The package's loop over files; an exception ends it.
RECURSIVE PackageLoop(_, _)
PackageLoop(files, students) ==
    IF files = <<>> THEN [raised |-> FALSE, students |-> students]
    ELSE IF files[1].download = "failed"
    THEN PackageLoop(Tail(files), students)
    ELSE LET medical_data == PackageExtract(files[1])
         IN  IF medical_data.raised
             THEN [raised |-> TRUE, students |-> students]
             ELSE IF medical_data.value = "None"
             THEN PackageLoop(Tail(files), students)
             ELSE IF medical_data.value = "not_object"
             THEN [raised |-> TRUE, students |-> students]
             ELSE PackageLoop(Tail(files), students \o files[1].students)

\* MedicalAgent.get_health_scores(): any exception gives None.
GetHealthScores(files) ==
    LET all_data == PackageLoop(files, <<>>)
    IN  IF all_data.raised THEN [value |-> "None"]
        ELSE IF all_data.students = <<>> THEN [value |-> "None"]
        ELSE LET scored == CalculateHealthScore(all_data.students)
             IN  IF scored.raised # "none" THEN [value |-> "None"]
                 ELSE [value |-> "scores", scores |-> scored.scores]

InitFiles ==
    /\ PureIdle
    /\ pureOp = "files"
    /\ pureIn \in [variant : {"script", "package"},
                   files : FileLists(MaxFiles)]

ApplyFiles ==
    /\ pureOp = "files"
    /\ ~pureDone
    /\ pureOut' = IF pureIn.variant = "script"
                  THEN ProcessMedicalFiles(pureIn.files)
                  ELSE GetHealthScores(pureIn.files)
    /\ pureDone' = TRUE
    /\ UNCHANGED <<loopVars, callerVars, detVars, pureOp, pureIn>>
    /\ UNCHANGED extVars

NextFiles == ApplyFiles

SpecFiles == InitFiles /\ [][NextFiles]_vars

\* The student records of the files that were read and extracted.
RECURSIVE Contributed(_)
Contributed(files) ==
    IF files = <<>> THEN <<>>
    ELSE (IF files[1].download = "ok" /\ files[1].llm = "object"
          THEN files[1].students ELSE <<>>)
         \o Contributed(Tail(files))

\* The records of the files that did not fail are all in the result.
AllContributedKept ==
    LET kept == Contributed(pureIn.files)
    IN  IF kept = <<>> THEN pureOut.value = "None"
        ELSE IF pureIn.variant = "script"
        THEN pureOut.value = "data" /\ pureOut.students = kept
        ELSE /\ pureOut.value = "scores"
             /\ DOMAIN pureOut.scores =
                   {Lower(kept[i].email) : i \in 1..Len(kept)}

\* C30: a failure on one file (download or PDF read, LLM extraction,
\* unparseable LLM output) skips only that file: the student records of
\* every other file are aggregated, and the result is None only when no
\* file contributed a student record, in the script and in the package.
C30_FailureSkipsOnlyThatFile ==
    (pureOp = "files" /\ pureDone) => AllContributedKept

\* C30 for the script alone.
C30_ScriptSkipsOnlyThatFile ==
    (pureOp = "files" /\ pureDone /\ pureIn.variant = "script")
        => AllContributedKept

====
